---------------------------- MODULE Spec2Model ----------------------------
(***************************************************************************)
(* A model of the pulsar PulseAudio server: the tagstruct reader and       *)
(* writer (pa-proto/src/types/tagstruct.rs), the command parser            *)
(* (pa-proto/src/command), and the per-connection handler                  *)
(* (src/server.rs).                                                        *)
(*                                                                         *)
(* Bytes are the integers 0..255.  A u32 is kept as the record             *)
(* [hi, lo] of its two 16-bit halves, since bit 31 matters (FLAG_SHM,      *)
(* INVALID_INDEX) and the model checker's integers are 32-bit signed.      *)
(***************************************************************************)
EXTENDS Integers, Sequences, FiniteSets, TLC

(***************************************************************************)
(* Bounds of the model.                                                    *)
(***************************************************************************)
\* Packets the server handles in one behaviour, over all connections.
MaxPackets == 2
\* Connections the listener accepts in one behaviour.
MaxConns == 2

(***************************************************************************)
(* u32 arithmetic on [hi, lo] halves.                                      *)
(***************************************************************************)
\* The u32 made of four big-endian bytes (byteorder's read_u32::<NetworkEndian>).
U32OfBytes(b3, b2, b1, b0) == [hi |-> b3 * 256 + b2, lo |-> b1 * 256 + b0]

\* The four big-endian bytes of a u32 (byteorder's write_u32::<NetworkEndian>).
U32Bytes(x) == << x.hi \div 256, x.hi % 256, x.lo \div 256, x.lo % 256 >>

\* The u32 holding a natural number below 2^31.
U32FromNat(n) == [hi |-> n \div 65536, lo |-> n % 65536]

\* a < b on u32.
U32Lt(a, b) == a.hi < b.hi \/ (a.hi = b.hi /\ a.lo < b.lo)

\* The natural number a u32 below 2^31 holds.
U32ToNat(x) == x.hi * 65536 + x.lo

\* u32::min.
U32Min(a, b) == IF U32Lt(b, a) THEN b ELSE a

(***************************************************************************)
(* Constants of the wire format.                                           *)
(***************************************************************************)
TAG_STRING == 116
TAG_STRING_NULL == 78
TAG_U32 == 76
TAG_U8 == 66
TAG_U64 == 82
TAG_S64 == 114
TAG_SAMPLE_SPEC == 97
TAG_ARBITRARY == 120
TAG_BOOLEAN_TRUE == 49
TAG_BOOLEAN_FALSE == 48
TAG_TIMEVAL == 84
TAG_USEC == 85
TAG_CHANNEL_MAP == 109
TAG_CVOLUME == 118
TAG_PROPLIST == 80
TAG_VOLUME == 86
TAG_FORMAT_INFO == 102

\* enum Tag: the tag bytes Tag::from_u8 accepts.
Tags ==
    { TAG_STRING, TAG_STRING_NULL, TAG_U32, TAG_U8, TAG_U64, TAG_S64,
      TAG_SAMPLE_SPEC, TAG_ARBITRARY, TAG_BOOLEAN_TRUE, TAG_BOOLEAN_FALSE,
      TAG_TIMEVAL, TAG_USEC, TAG_CHANNEL_MAP, TAG_CVOLUME, TAG_PROPLIST,
      TAG_VOLUME, TAG_FORMAT_INFO }

\* Max. size of a proplist value in bytes: 64 * 1024.
MAX_PROP_SIZE == 65536
\* Maximum number of channels.
CHANNELS_MAX == 32
\* RATE_MAX = 48000 * 8.
RATE_MAX == 384000
\* Highest discriminant of enum SampleFormat (S24In32Be).
SAMPLE_FORMAT_LAST == 12
\* Highest discriminant of enum ChannelPosition (TopRearCenter).
CHANNEL_POSITION_LAST == 50
\* Highest discriminant of enum FormatEncoding (Mpeg2Iec61937).
FORMAT_ENCODING_LAST == 6
\* VOLUME_MAX = u32::MAX / 2 = 0x7FFFFFFF.
VOLUME_MAX == [hi |-> 32767, lo |-> 65535]
\* VOLUME_NORM = 0x10000.
VOLUME_NORM == [hi |-> 1, lo |-> 0]

(***************************************************************************)
(* TagStructReader.  A reader is the pair (data, pos): pos bytes of data   *)
(* are consumed.  A read ends in one of                                    *)
(*   "ok"    a value, and the new position                                 *)
(*   "eof"   Ok(None): clean end of input                                  *)
(*   "err"   Err(_)                                                        *)
(*   "panic" the thread panicked (unimplemented!)                          *)
(***************************************************************************)
NoValue == [type |-> "None"]

ReadOk(v, p) == [res |-> "ok", val |-> v, pos |-> p]
ReadEof == [res |-> "eof", val |-> NoValue, pos |-> 0]
ReadErr == [res |-> "err", val |-> NoValue, pos |-> 0]
ReadPanic == [res |-> "panic", val |-> NoValue, pos |-> 0]

\* Bytes left to read.
Left(data, pos) == Len(data) - pos

\* A variant of read_n that returns the bytes that are left when fewer
\* than n are.
read_n_lenient(data, pos, n) ==
    IF n > Left(data, pos)
    THEN ReadOk(SubSeq(data, pos + 1, Len(data)), Len(data))
    ELSE ReadOk(SubSeq(data, pos + 1, pos + n), pos + n)

\* TagStructReader::read_n: the next n bytes, or an error at a premature end.
read_n(data, pos, n) ==
    IF n > Left(data, pos)
    THEN ReadErr
    ELSE ReadOk(SubSeq(data, pos + 1, pos + n), pos + n)

\* TagStructReader::read_until: the bytes up to and including the first
\* `until` byte, or an error when there is none.
read_until(data, pos, until) ==
    LET found == { i \in (pos + 1)..Len(data) : data[i] = until }
    IN  IF found = {}
        THEN ReadErr
        ELSE LET first == CHOOSE i \in found : \A j \in found : i <= j
             IN  read_n(data, pos, first - pos)

\* Cursor reads of byteorder: a big-endian u32 without a tag.
raw_u32(data, pos) ==
    IF Left(data, pos) < 4
    THEN ReadErr
    ELSE ReadOk(U32OfBytes(data[pos + 1], data[pos + 2], data[pos + 3], data[pos + 4]),
                pos + 4)

\* A variant of from_u32_clamped that keeps the raw value.
from_u32_unclamped(raw) == raw

\* Volume::from_u32_clamped.
from_u32_clamped(raw) == U32Min(raw, VOLUME_MAX)

\* SampleSpec::new_checked.
new_checked(format, channels, rate) ==
    IF channels = 0 \/ channels > CHANNELS_MAX
    THEN [ok |-> FALSE]
    ELSE IF rate = U32FromNat(0) \/ U32Lt(U32FromNat((RATE_MAX * 101) \div 100), rate)
    THEN [ok |-> FALSE]
    ELSE [ok |-> TRUE, format |-> format, channels |-> channels, sample_rate |-> rate]

\* str::is_ascii on the bytes of a proplist key (a key that is not valid
\* UTF-8 has a byte >= 128 as well, and is rejected one check earlier).
is_ascii(bytes) == \A i \in 1..Len(bytes) : bytes[i] < 128

\* PropList::insert: BTreeMap::insert, replacing the value of an existing key.
PropInsert(props, key, value) ==
    [k \in (DOMAIN props) \cup {key} |-> IF k = key THEN value ELSE props[k]]

\* PropList::new.
EmptyProps == [k \in {} |-> <<>>]

RECURSIVE read(_, _)
RECURSIVE ReadPropEntries(_, _, _)
RECURSIVE ReadChannels(_, _, _, _)
RECURSIVE ReadVolumes(_, _, _, _)

\* TagStructReader::expect: the next value, a clean end being an error.
expect(data, pos) ==
    LET some(r) == IF r.res = "eof" THEN ReadErr ELSE r
    IN  some(read(data, pos))

\* read_typed!: the next value, which must be of the given variant.
read_typed(data, pos, variant) ==
    LET match(r) == IF r.res # "ok" THEN r
                    ELSE IF r.val.type = variant THEN r ELSE ReadErr
    IN  match(expect(data, pos))

\* TagStructReader::read_string: a string or a null string.
read_string(data, pos) ==
    LET match(r) == IF r.res # "ok" THEN r
                    ELSE IF r.val.type \in {"String", "NullString"} THEN r ELSE ReadErr
    IN  match(expect(data, pos))

\* A variant of read_sized_arbitrary that takes a blob of any length.
read_sized_arbitrary_of_any_length(data, pos, expected_length) ==
    read_typed(data, pos, "Arbitrary")

\* TagStructReader::read_sized_arbitrary.
read_sized_arbitrary(data, pos, expected_length) ==
    LET sized(a) == IF a.res # "ok" THEN a
                    ELSE IF U32FromNat(Len(a.val.bytes)) # expected_length THEN ReadErr
                    ELSE a
    IN  sized(read_typed(data, pos, "Arbitrary"))

\* The loop of the PROPLIST arm of read(): entries up to a null string.
ReadPropEntries(data, pos, proplist) ==
    LET key == read_string(data, pos)
    IN  IF key.res # "ok" THEN key
        ELSE IF key.val.type = "NullString"
        THEN ReadOk([type |-> "PropList", props |-> proplist], key.pos)
        ELSE IF key.val.bytes = <<>> THEN ReadErr
        ELSE IF ~is_ascii(key.val.bytes) THEN ReadErr
        ELSE LET data_len == read_typed(data, key.pos, "U32")
             IN  IF data_len.res # "ok" THEN data_len
                 ELSE IF U32Lt(U32FromNat(MAX_PROP_SIZE), data_len.val.n) THEN ReadErr
                 ELSE LET blob == read_sized_arbitrary(data, data_len.pos, data_len.val.n)
                      IN  IF blob.res # "ok" THEN blob
                          ELSE ReadPropEntries(data, blob.pos,
                                   PropInsert(proplist, key.val.bytes, blob.val.bytes))

\* The loop of the CHANNEL_MAP arm of read().
ReadChannels(data, pos, channels, map) ==
    IF channels = 0 THEN ReadOk([type |-> "ChannelMap", map |-> map], pos)
    ELSE IF Left(data, pos) < 1 THEN ReadErr
    ELSE IF data[pos + 1] > CHANNEL_POSITION_LAST THEN ReadErr
    ELSE ReadChannels(data, pos + 1, channels - 1, Append(map, data[pos + 1]))

\* The loop of the CVOLUME arm of read().
ReadVolumes(data, pos, channels, volumes) ==
    IF channels = 0 THEN ReadOk([type |-> "CVolume", volumes |-> volumes], pos)
    ELSE LET raw == raw_u32(data, pos)
         IN  IF raw.res # "ok" THEN raw
             ELSE ReadVolumes(data, raw.pos, channels - 1,
                              Append(volumes, from_u32_clamped(raw.val)))

\* TagStructReader::read: the next value, or the clean end.
read(data, pos) ==
    IF Left(data, pos) < 1 THEN ReadEof
    ELSE LET raw_tag == data[pos + 1]
             p == pos + 1
         IN
    IF raw_tag \notin Tags THEN ReadErr
    ELSE IF raw_tag = TAG_STRING THEN
        LET s == read_until(data, p, 0)
        IN  IF s.res # "ok" THEN s
            ELSE ReadOk([type |-> "String", bytes |-> SubSeq(s.val, 1, Len(s.val) - 1)],
                        s.pos)
    ELSE IF raw_tag = TAG_STRING_NULL THEN ReadOk([type |-> "NullString"], p)
    ELSE IF raw_tag = TAG_U32 THEN
        LET n == raw_u32(data, p)
        IN  IF n.res # "ok" THEN n ELSE ReadOk([type |-> "U32", n |-> n.val], n.pos)
    ELSE IF raw_tag = TAG_U8 THEN
        IF Left(data, p) < 1 THEN ReadErr
        ELSE ReadOk([type |-> "U8", n |-> data[p + 1]], p + 1)
    ELSE IF raw_tag = TAG_U64 THEN
        LET b == read_n(data, p, 8)
        IN  IF b.res # "ok" THEN b ELSE ReadOk([type |-> "U64", bytes |-> b.val], b.pos)
    ELSE IF raw_tag = TAG_S64 THEN
        LET b == read_n(data, p, 8)
        IN  IF b.res # "ok" THEN b ELSE ReadOk([type |-> "S64", bytes |-> b.val], b.pos)
    ELSE IF raw_tag = TAG_ARBITRARY THEN
        LET len == raw_u32(data, p)
        IN  IF len.res # "ok" THEN len
            ELSE IF U32Lt(U32FromNat(Left(data, len.pos)), len.val) THEN ReadErr
            ELSE LET b == read_n(data, len.pos, U32ToNat(len.val))
                 IN  IF b.res # "ok" THEN b
                     ELSE ReadOk([type |-> "Arbitrary", bytes |-> b.val], b.pos)
    ELSE IF raw_tag = TAG_BOOLEAN_TRUE THEN ReadOk([type |-> "Boolean", b |-> TRUE], p)
    ELSE IF raw_tag = TAG_BOOLEAN_FALSE THEN ReadOk([type |-> "Boolean", b |-> FALSE], p)
    ELSE IF raw_tag = TAG_PROPLIST THEN ReadPropEntries(data, p, EmptyProps)
    ELSE IF raw_tag = TAG_SAMPLE_SPEC THEN
        IF Left(data, p) < 6 THEN ReadErr
        ELSE LET format == data[p + 1]
                 channels == data[p + 2]
                 rate == raw_u32(data, p + 2).val
                 spec == new_checked(format, channels, rate)
             IN  IF format > SAMPLE_FORMAT_LAST THEN ReadErr
                 ELSE IF ~spec.ok THEN ReadErr
                 ELSE ReadOk([type |-> "SampleSpec", format |-> spec.format,
                              channels |-> spec.channels,
                              sample_rate |-> spec.sample_rate], p + 6)
    ELSE IF raw_tag = TAG_CHANNEL_MAP THEN
        IF Left(data, p) < 1 THEN ReadErr
        ELSE IF data[p + 1] > CHANNELS_MAX THEN ReadErr
        ELSE ReadChannels(data, p + 1, data[p + 1], <<>>)
    ELSE IF raw_tag = TAG_CVOLUME THEN
        IF Left(data, p) < 1 THEN ReadErr
        ELSE IF data[p + 1] = 0 \/ data[p + 1] > CHANNELS_MAX THEN ReadErr
        ELSE ReadVolumes(data, p + 1, data[p + 1], <<>>)
    ELSE IF raw_tag = TAG_USEC THEN
        LET b == read_n(data, p, 8)
        IN  IF b.res # "ok" THEN b ELSE ReadOk([type |-> "Usec", bytes |-> b.val], b.pos)
    ELSE IF raw_tag = TAG_VOLUME THEN
        LET n == raw_u32(data, p)
        IN  IF n.res # "ok" THEN n
            ELSE ReadOk([type |-> "Volume", raw |-> from_u32_clamped(n.val)], n.pos)
    ELSE IF raw_tag = TAG_FORMAT_INFO THEN
        LET encoding == read_typed(data, p, "U8")
        IN  IF encoding.res # "ok" THEN encoding
            ELSE LET props == read_typed(data, encoding.pos, "PropList")
                 IN  IF props.res # "ok" THEN props
                     ELSE IF encoding.val.n > FORMAT_ENCODING_LAST THEN ReadErr
                     ELSE ReadOk([type |-> "FormatInfo", encoding |-> encoding.val.n,
                                  props |-> props.val.props], props.pos)
    ELSE \* TAG_TIMEVAL: unimplemented!()
        ReadPanic


(***************************************************************************)
(* TagStructWriter: each operator is the bytes one ToTagStruct impl        *)
(* appends to the buffer.                                                  *)
(***************************************************************************)
\* impl ToTagStruct for u32.
w_u32(n) == <<TAG_U32>> \o U32Bytes(n)

\* impl ToTagStruct for u8.
w_u8(n) == <<TAG_U8, n>>

\* impl ToTagStruct for bool.
w_bool(b) == IF b THEN <<TAG_BOOLEAN_TRUE>> ELSE <<TAG_BOOLEAN_FALSE>>

\* impl ToTagStruct for &PaStr / &CStr: the bytes and the nul terminator.
w_str(bytes) == <<TAG_STRING>> \o bytes \o <<0>>

\* impl ToTagStruct for Option<&PaStr>, None.
w_null_str == <<TAG_STRING_NULL>>

\* impl ToTagStruct for &[u8].
w_arbitrary(bytes) == <<TAG_ARBITRARY>> \o U32Bytes(U32FromNat(Len(bytes))) \o bytes

\* impl ToTagStruct for Microseconds (the eight big-endian bytes are kept).
w_usec(bytes) == <<TAG_USEC>> \o bytes

\* impl ToTagStruct for Volume.
w_volume(raw) == <<TAG_VOLUME>> \o U32Bytes(raw)

\* impl ToTagStruct for SampleSpec.
w_sample_spec(spec) ==
    <<TAG_SAMPLE_SPEC, spec.format, spec.channels>> \o U32Bytes(spec.sample_rate)

\* impl ToTagStruct for ChannelMap.
w_channel_map(map) == <<TAG_CHANNEL_MAP, Len(map)>> \o map

RECURSIVE ConcatU32(_)
\* The big-endian bytes of a sequence of u32, one after the other.
ConcatU32(xs) == IF xs = <<>> THEN <<>> ELSE U32Bytes(Head(xs)) \o ConcatU32(Tail(xs))

\* impl ToTagStruct for CVolume.
w_cvolume(volumes) == <<TAG_CVOLUME, Len(volumes)>> \o ConcatU32(volumes)

RECURSIVE BytesLess(_, _)
\* Ord of the keys of the BTreeMap: byte-wise lexicographic order.
BytesLess(a, b) ==
    IF b = <<>> THEN FALSE
    ELSE IF a = <<>> THEN TRUE
    ELSE IF Head(a) # Head(b) THEN Head(a) < Head(b)
    ELSE BytesLess(Tail(a), Tail(b))

RECURSIVE WritePropEntries(_, _)
\* The loop of PropList's ToTagStruct: the entries of the keys in `keys`, in key order.
WritePropEntries(props, keys) ==
    IF keys = {} THEN <<>>
    ELSE LET k == CHOOSE x \in keys : \A y \in keys \ {x} : BytesLess(x, y)
         IN  w_str(k) \o w_u32(U32FromNat(Len(props[k]))) \o w_arbitrary(props[k])
                 \o WritePropEntries(props, keys \ {k})

\* impl ToTagStruct for PropList.
w_proplist(props) == <<TAG_PROPLIST>> \o WritePropEntries(props, DOMAIN props) \o w_null_str

\* impl ToTagStruct for FormatInfo.
w_format_info(encoding, props) == <<TAG_FORMAT_INFO>> \o w_u8(encoding) \o w_proplist(props)

(***************************************************************************)
(* Strings.                                                                *)
(***************************************************************************)
\* CStr::from_bytes_with_nul(..).is_ok(): one nul byte, at the end.
IsCStrWithNul(bytes) ==
    /\ Len(bytes) >= 1
    /\ bytes[Len(bytes)] = 0
    /\ \A i \in 1..(Len(bytes) - 1) : bytes[i] # 0

\* A UTF-8 continuation byte within [lo, hi].
Cont(bytes, i, lo, hi) == i <= Len(bytes) /\ bytes[i] >= lo /\ bytes[i] <= hi

RECURSIVE IsUtf8From(_, _)
\* str::from_utf8(..).is_ok() from position i on.
IsUtf8From(bytes, i) ==
    IF i > Len(bytes) THEN TRUE
    ELSE LET b == bytes[i] IN
    IF b < 128 THEN IsUtf8From(bytes, i + 1)
    ELSE IF b >= 194 /\ b <= 223
    THEN Cont(bytes, i + 1, 128, 191) /\ IsUtf8From(bytes, i + 2)
    ELSE IF b >= 224 /\ b <= 239
    THEN /\ Cont(bytes, i + 1, IF b = 224 THEN 160 ELSE 128, IF b = 237 THEN 159 ELSE 191)
         /\ Cont(bytes, i + 2, 128, 191)
         /\ IsUtf8From(bytes, i + 3)
    ELSE IF b >= 240 /\ b <= 244
    THEN /\ Cont(bytes, i + 1, IF b = 240 THEN 144 ELSE 128, IF b = 244 THEN 143 ELSE 191)
         /\ Cont(bytes, i + 2, 128, 191)
         /\ Cont(bytes, i + 3, 128, 191)
         /\ IsUtf8From(bytes, i + 4)
    ELSE FALSE

\* Prop::as_str of the two well-known properties the server reads.
PROP_APPLICATION_NAME ==
    <<97, 112, 112, 108, 105, 99, 97, 116, 105, 111, 110, 46, 110, 97, 109, 101>>
PROP_DEVICE_DESCRIPTION ==
    <<100, 101, 118, 105, 99, 101, 46, 100, 101, 115, 99, 114, 105, 112, 116, 105, 111, 110>>

\* PropList::get_string: [some, bytes], the bytes without the nul terminator.
get_string(props, prop) ==
    IF prop \notin DOMAIN props THEN [some |-> FALSE, bytes |-> <<>>]
    ELSE IF ~IsCStrWithNul(props[prop]) THEN [some |-> FALSE, bytes |-> <<>>]
    ELSE LET s == SubSeq(props[prop], 1, Len(props[prop]) - 1)
         IN  IF IsUtf8From(s, 1) THEN [some |-> TRUE, bytes |-> s]
             ELSE [some |-> FALSE, bytes |-> <<>>]

\* A merge in which the entries already there win.
PropExtend_keeping(props, more) ==
    [k \in (DOMAIN props) \cup (DOMAIN more) |->
        IF k \in DOMAIN props THEN props[k] ELSE more[k]]

\* PropList's Extend: every entry of `more` inserted into `props`.
PropExtend(props, more) ==
    [k \in (DOMAIN props) \cup (DOMAIN more) |->
        IF k \in DOMAIN more THEN more[k] ELSE props[k]]

(***************************************************************************)
(* Commands (pa-proto/src/command).                                        *)
(***************************************************************************)
\* Minimum protocol version understood by the library.
PROTOCOL_MIN_VERSION == 13
\* The protocol version implemented by the library.
PROTOCOL_VERSION == 32

\* enum PaCommand: the opcodes the parser and the encoders name.
PA_COMMAND_ERROR == 0
PA_COMMAND_REPLY == 2
PA_COMMAND_CREATE_PLAYBACK_STREAM == 3
PA_COMMAND_EXIT == 7
PA_COMMAND_AUTH == 8
PA_COMMAND_SET_CLIENT_NAME == 9
PA_COMMAND_GET_SINK_INFO == 21
PA_COMMAND_GET_SINK_INFO_LIST == 22
PA_COMMAND_GET_SOURCE_INFO == 23
PA_COMMAND_GET_SOURCE_INFO_LIST == 24
PA_COMMAND_GET_MODULE_INFO == 25
PA_COMMAND_GET_MODULE_INFO_LIST == 26
PA_COMMAND_GET_CLIENT_INFO == 27
PA_COMMAND_GET_CLIENT_INFO_LIST == 28
PA_COMMAND_GET_SINK_INPUT_INFO == 29
PA_COMMAND_GET_SINK_INPUT_INFO_LIST == 30
PA_COMMAND_GET_SOURCE_OUTPUT_INFO == 31
PA_COMMAND_GET_SOURCE_OUTPUT_INFO_LIST == 32
PA_COMMAND_GET_SAMPLE_INFO == 33
PA_COMMAND_GET_SAMPLE_INFO_LIST == 34
\* The last variant of enum PaCommand.
PA_COMMAND_REGISTER_MEMFD_SHMID == 103

\* INVALID_INDEX = u32::MAX.
INVALID_INDEX == [hi |-> 65535, lo |-> 65535]

\* Result<Command, Error> of the parser, or the panic of the thread.
NoCommand == [tag |-> U32FromNat(0), kind |-> "None", params |-> [none |-> TRUE]]
ParseOk(tag, kind, params) ==
    [res |-> "ok", cmd |-> [tag |-> tag, kind |-> kind, params |-> params]]
ParseErr == [res |-> "err", cmd |-> NoCommand]
ParsePanic == [res |-> "panic", cmd |-> NoCommand]
NoParams == [none |-> TRUE]

RECURSIVE ReadFields(_, _, _, _)
\* A run of typed reads joined by `?`: the values read, or the first failure.
ReadFields(data, pos, kinds, vals) ==
    LET rest(r) == IF r.res # "ok" THEN r
                   ELSE ReadFields(data, r.pos, Tail(kinds), Append(vals, r.val))
    IN  IF kinds = <<>> THEN ReadOk(vals, pos)
        ELSE rest(IF Head(kinds) = "StringOrNull"
                  THEN read_string(data, pos)
                  ELSE read_typed(data, pos, Head(kinds)))

\* Auth::from_tag_struct.
Auth_from_tag_struct(data, pos) ==
    LET auth(f) ==
            IF f.res # "ok" THEN f
            ELSE ReadOk([version |-> f.val[1].n.lo,
                         supports_shm |-> f.val[1].n.hi >= 32768,
                         supports_memfd |-> (f.val[1].n.hi \div 16384) % 2 = 1,
                         cookie |-> f.val[2].bytes], f.pos)
    IN  auth(ReadFields(data, pos, <<"U32", "Arbitrary">>, <<>>))

\* SetClientName::from_tag_struct.
SetClientName_from_tag_struct(data, pos) ==
    LET params(props) == IF props.res # "ok" THEN props
                         ELSE ReadOk([props |-> props.val.props], props.pos)
    IN  params(read_typed(data, pos, "PropList"))

\* RegisterMemfdShmid::from_tag_struct.
RegisterMemfdShmid_from_tag_struct(data, pos) ==
    LET params(shmid) == IF shmid.res # "ok" THEN shmid
                         ELSE ReadOk([shmid |-> shmid.val.n], shmid.pos)
    IN  params(read_typed(data, pos, "U32"))

\* The reads of CreatePlaybackStream::from_tag_struct up to the format
\* infos, which depend on the protocol version of the sender.
StreamFieldKinds(protocol_version) ==
    <<"SampleSpec", "ChannelMap", "U32", "StringOrNull", "U32", "Boolean",
      "U32", "U32", "U32", "U32", "CVolume",
      "Boolean", "Boolean", "Boolean", "Boolean", "Boolean", "Boolean", "Boolean",
      "Boolean", "Boolean", "PropList">>
    \o (IF protocol_version >= 14 THEN <<"Boolean", "Boolean">> ELSE <<>>)
    \o (IF protocol_version >= 15 THEN <<"Boolean", "Boolean", "Boolean">> ELSE <<>>)
    \o (IF protocol_version >= 17 THEN <<"Boolean">> ELSE <<>>)
    \o (IF protocol_version >= 18 THEN <<"Boolean">> ELSE <<>>)

\* The format infos of CreatePlaybackStream::from_tag_struct (proto >= 21).
ReadFormats(data, pos, protocol_version) ==
    LET formats(n) ==
            IF n.res # "ok" THEN n
            ELSE ReadFields(data, n.pos, [i \in 1..n.val.n |-> "FormatInfo"], <<>>)
    IN  IF protocol_version < 21 THEN ReadOk(<<>>, pos)
        ELSE formats(read_typed(data, pos, "U8"))

\* CreatePlaybackStream::from_tag_struct.
CreatePlaybackStream_from_tag_struct(data, pos, protocol_version) ==
    LET params(f, formats) ==
            LET sink_index == f.val[3].n
                sink_name == f.val[4]
                volume_set == IF protocol_version >= 14 THEN f.val[22].b ELSE TRUE
                muted_set == (IF protocol_version >= 15 THEN f.val[24].b ELSE FALSE)
                                 \/ f.val[20].b
            IN  IF formats.res # "ok" THEN formats
                ELSE IF sink_index # INVALID_INDEX /\ sink_name.type = "String"
                THEN ReadErr
                ELSE ReadOk([stream_props |-> f.val[21].props,
                             sample_spec |-> f.val[1],
                             channel_map |-> f.val[2].map,
                             sink_spec |->
                                 IF sink_name.type = "String"
                                 THEN [by |-> "Name", name |-> sink_name.bytes]
                                 ELSE IF sink_index = INVALID_INDEX
                                 THEN [by |-> "None"]
                                 ELSE [by |-> "Index", index |-> sink_index],
                             muted |-> IF muted_set
                                       THEN [some |-> TRUE, b |-> f.val[20].b]
                                       ELSE [some |-> FALSE],
                             volume |-> IF volume_set
                                        THEN [some |-> TRUE, volumes |-> f.val[11].volumes]
                                        ELSE [some |-> FALSE],
                             syncid |-> f.val[10].n,
                             formats |-> formats.val], formats.pos)
        fields(f) ==
            IF f.res # "ok" THEN f
            ELSE params(f, ReadFormats(data, f.pos, protocol_version))
    IN  fields(ReadFields(data, pos, StreamFieldKinds(protocol_version), <<>>))

\* The opcodes of from_tagstruct's arms that are unimplemented!().
UnimplementedInfoOpcodes ==
    { PA_COMMAND_GET_SINK_INFO, PA_COMMAND_GET_SOURCE_INFO, PA_COMMAND_GET_MODULE_INFO,
      PA_COMMAND_GET_CLIENT_INFO, PA_COMMAND_GET_SINK_INPUT_INFO,
      PA_COMMAND_GET_SOURCE_OUTPUT_INFO, PA_COMMAND_GET_SAMPLE_INFO }

\* The arms of from_tagstruct that take no parameters.
ListKind(opcode) ==
    CASE opcode = PA_COMMAND_GET_SINK_INFO_LIST -> "GetSinkInfoList"
      [] opcode = PA_COMMAND_GET_SOURCE_INFO_LIST -> "GetSourceInfoList"
      [] opcode = PA_COMMAND_GET_MODULE_INFO_LIST -> "GetModuleInfoList"
      [] opcode = PA_COMMAND_GET_CLIENT_INFO_LIST -> "GetClientInfoList"
      [] opcode = PA_COMMAND_GET_SINK_INPUT_INFO_LIST -> "GetSinkInputInfoList"
      [] opcode = PA_COMMAND_GET_SOURCE_OUTPUT_INFO_LIST -> "GetSourceOutputInfoList"
      [] opcode = PA_COMMAND_GET_SAMPLE_INFO_LIST -> "GetSampleInfoList"
      [] OTHER -> "None"

\* The `match command` of from_tagstruct: [res, kind, params, pos], pos
\* being Len(data) where the reader is replaced by an empty one.
ParseKind(data, pos, opcode, protocol_version) ==
    LET Kind(k, r) ==
            IF r.res # "ok" THEN [res |-> r.res, kind |-> "None", params |-> NoParams, pos |-> 0]
            ELSE [res |-> "ok", kind |-> k, params |-> r.val, pos |-> r.pos]
    IN
    IF opcode = PA_COMMAND_REPLY
    THEN Kind("Reply", ReadOk([params |-> SubSeq(data, pos + 1, Len(data))], Len(data)))
    ELSE IF opcode = PA_COMMAND_CREATE_PLAYBACK_STREAM
    THEN Kind("CreatePlaybackStream",
              CreatePlaybackStream_from_tag_struct(data, pos, protocol_version))
    ELSE IF opcode = PA_COMMAND_AUTH
    THEN Kind("Auth", Auth_from_tag_struct(data, pos))
    ELSE IF opcode = PA_COMMAND_SET_CLIENT_NAME
    THEN Kind("SetClientName", SetClientName_from_tag_struct(data, pos))
    ELSE IF opcode \in UnimplementedInfoOpcodes
    THEN Kind("None", ReadPanic)
    ELSE IF ListKind(opcode) # "None"
    THEN Kind(ListKind(opcode), ReadOk(NoParams, pos))
    ELSE IF opcode = PA_COMMAND_REGISTER_MEMFD_SHMID
    THEN Kind("RegisterMemfdShmid", RegisterMemfdShmid_from_tag_struct(data, pos))
    ELSE \* _ => unimplemented!("command {:?}", command)
         Kind("None", ReadPanic)

\* Command::from_tagstruct.
from_tagstruct(data, protocol_version) ==
    LET command(k, rest) ==
            IF rest.res = "panic" THEN ParsePanic
            ELSE IF rest.res = "eof" THEN k
            ELSE ParseErr
        kind(tag, k) ==
            IF k.res = "panic" THEN ParsePanic
            ELSE IF k.res # "ok" THEN ParseErr
            ELSE command(ParseOk(tag, k.kind, k.params), read(data, k.pos))
        opcode(head) ==
            IF head.res = "panic" THEN ParsePanic
            ELSE IF head.res # "ok" THEN ParseErr
            ELSE IF U32Lt(U32FromNat(PA_COMMAND_REGISTER_MEMFD_SHMID), head.val[1].n)
            THEN ParseErr
            ELSE kind(head.val[2].n,
                      ParseKind(data, head.pos, U32ToNat(head.val[1].n), protocol_version))
    IN  IF protocol_version < PROTOCOL_MIN_VERSION THEN ParseErr
        ELSE opcode(ReadFields(data, 0, <<"U32", "U32">>, <<>>))

\* A variant of needs_auth that also lets the module list through.
needs_auth_but_modules(cmd) == cmd.kind \notin {"Auth", "GetModuleInfoList"}

\* Command::needs_auth.
needs_auth(cmd) == cmd.kind # "Auth"

(***************************************************************************)
(* Packets and the encoders of the replies.                                *)
(***************************************************************************)
\* Descriptor.channel of a control packet.
CONTROL_CHANNEL == -1

\* Packet::new_command.
new_command(payload) ==
    [channel |-> CONTROL_CHANNEL, flags |-> U32FromNat(0), payload |-> payload]

\* PulseError: the codes the server returns.
Access == 1
Invalid == 3
Protocol == 7
Version == 17
NotImplemented == 23

\* Command::reply_packet: `reply` is the output of the reply's to_tag_struct.
reply_packet(cmd, reply) ==
    new_command(w_u32(U32FromNat(PA_COMMAND_REPLY)) \o w_u32(cmd.tag) \o reply)

\* A variant of error_packet that writes the code where the tag belongs.
error_packet_code_first(cmd, code) ==
    new_command(w_u32(U32FromNat(PA_COMMAND_ERROR)) \o w_u32(U32FromNat(code))
                    \o w_u32(cmd.tag))

\* A variant of error_packet for an enum PulseError numbered from 0.
error_packet_from_zero(cmd, code) ==
    new_command(w_u32(U32FromNat(PA_COMMAND_ERROR)) \o w_u32(cmd.tag)
                    \o w_u32(U32FromNat(code - 1)))

\* Command::error_reply(code).to_packet: the Error arm of Command's to_tag_struct.
error_packet(cmd, code) ==
    new_command(w_u32(U32FromNat(PA_COMMAND_ERROR)) \o w_u32(cmd.tag)
                    \o w_u32(U32FromNat(code)))

\* A variant of AuthReply's to_tag_struct that always announces memfd.
AuthReply_with_memfd(version, use_memfd, use_shm) ==
    w_u32([hi |-> (IF use_shm THEN 32768 ELSE 0) + 16384, lo |-> version])

\* AuthReply's to_tag_struct: version | FLAG_MEMFD | FLAG_SHM as one u32.
AuthReply_to_tag_struct(version, use_memfd, use_shm) ==
    w_u32([hi |-> (IF use_shm THEN 32768 ELSE 0) + (IF use_memfd THEN 16384 ELSE 0),
           lo |-> version])

\* SetClientNameReply's to_tag_struct.
SetClientNameReply_to_tag_struct(client_id) == w_u32(U32FromNat(client_id))

\* GetModuleInfoListReply's to_tag_struct.
GetModuleInfoListReply_to_tag_struct(protocol_version) ==
    w_u32(U32FromNat(0))
        \o w_str(<<68, 101, 102, 97, 117, 108, 116, 32, 77, 111, 100, 117, 108, 101>>)
        \o w_str(<<>>)
        \o w_u32(U32FromNat(1))
        \o (IF protocol_version < 15 THEN w_bool(FALSE) ELSE w_proplist(EmptyProps))

\* The ids of an IdxSet in iteration order (BTreeMap::iter: ascending).
RECURSIVE IdxOrder(_)
IdxOrder(ids) ==
    IF ids = {} THEN <<>>
    ELSE LET m == CHOOSE x \in ids : \A y \in ids : x <= y
         IN  <<m>> \o IdxOrder(ids \ {m})

\* ClientInfo::new and one turn of the loop of GetClientInfoListReply's to_tag_struct.
ClientInfo_to_tag_struct(client) ==
    w_u32(U32FromNat(client.id))
        \o w_str(get_string(client.props, PROP_APPLICATION_NAME).bytes)
        \o w_u32(INVALID_INDEX)
        \o w_str(<<>>)
        \o w_proplist(client.props)

RECURSIVE GetClientInfoListReply_loop(_, _)
GetClientInfoListReply_loop(map, order) ==
    IF order = <<>> THEN <<>>
    ELSE ClientInfo_to_tag_struct(map[Head(order)])
             \o GetClientInfoListReply_loop(map, Tail(order))

\* A list of the authenticated clients only.
GetClientInfoListReply_authed_only(clients) ==
    GetClientInfoListReply_loop(clients.map,
        IdxOrder({ c \in DOMAIN clients.map : clients.map[c].authed }))

\* GetClientInfoListReply's to_tag_struct over clients.iter().
GetClientInfoListReply_to_tag_struct(clients) ==
    GetClientInfoListReply_loop(clients.map, IdxOrder(DOMAIN clients.map))

\* A variant of protocol_downgrade that also rewrites for clients of version 15.
protocol_downgrade_through_15(spec, protocol_version) ==
    IF protocol_version <= 15 /\ spec.format \in {9, 11}
    THEN [spec EXCEPT !.format = 5]
    ELSE IF protocol_version <= 15 /\ spec.format \in {10, 12}
    THEN [spec EXCEPT !.format = 6]
    ELSE spec

\* SampleSpec::protocol_downgrade: the S24 formats become a float format.
protocol_downgrade(spec, protocol_version) ==
    IF protocol_version < 15 /\ spec.format \in {9, 11}
    THEN [spec EXCEPT !.format = 5]
    ELSE IF protocol_version < 15 /\ spec.format \in {10, 12}
    THEN [spec EXCEPT !.format = 6]
    ELSE spec

RECURSIVE WritePorts(_, _)
\* The loop over sink.ports() of GetSinkInfoListReply's to_tag_struct.
WritePorts(ports, protocol_version) ==
    IF ports = <<>> THEN <<>>
    ELSE w_str(Head(ports).name) \o w_str(Head(ports).desc)
             \o w_u32(U32FromNat(Head(ports).priority))
             \o (IF protocol_version >= 24 THEN w_u32(U32FromNat(Head(ports).avail))
                 ELSE <<>>)
             \o WritePorts(Tail(ports), protocol_version)

RECURSIVE WriteFormats(_)
\* The loop over sink.formats() of GetSinkInfoListReply's to_tag_struct.
WriteFormats(formats) ==
    IF formats = <<>> THEN <<>>
    ELSE w_format_info(Head(formats).encoding, Head(formats).props)
             \o WriteFormats(Tail(formats))

\* One turn of the loop over the sinks of GetSinkInfoListReply's to_tag_struct.
SinkInfo_to_tag_struct(sink, protocol_version) ==
    w_u32(U32FromNat(sink.index))
        \o w_str(sink.name)
        \o w_str(IF PROP_DEVICE_DESCRIPTION \in DOMAIN sink.props
                 THEN SubSeq(sink.props[PROP_DEVICE_DESCRIPTION], 1,
                             Len(sink.props[PROP_DEVICE_DESCRIPTION]) - 1)
                 ELSE <<40, 110, 117, 108, 108, 41>>)
        \o w_sample_spec(protocol_downgrade(sink.sample_spec, protocol_version))
        \o w_channel_map(sink.channel_map)
        \o w_u32(INVALID_INDEX)
        \o w_cvolume(sink.cvolume)
        \o w_bool(sink.muted)
        \o w_u32(INVALID_INDEX)
        \o w_null_str
        \o w_usec(<<0, 0, 0, 0, 0, 0, 0, 0>>)
        \o w_str(<<85, 110, 107, 110, 111, 119, 110, 32, 68, 114, 105, 118, 101, 114>>)
        \o w_u32(U32FromNat(sink.flags))
        \o w_proplist(sink.props)
        \o w_usec(<<0, 0, 0, 0, 0, 0, 0, 0>>)
        \o (IF protocol_version >= 15
            THEN w_volume(VOLUME_NORM) \o w_u32(U32FromNat(sink.state))
                     \o w_u32(U32FromNat(100)) \o w_u32(INVALID_INDEX)
            ELSE <<>>)
        \o (IF protocol_version >= 16
            THEN w_u32(U32FromNat(Len(sink.ports)))
                     \o WritePorts(sink.ports, protocol_version)
                     \o w_str(sink.ports[sink.active_port + 1].name)
            ELSE <<>>)
        \o (IF protocol_version >= 21
            THEN w_u8(Len(sink.formats)) \o WriteFormats(sink.formats)
            ELSE <<>>)

RECURSIVE GetSinkInfoListReply_loop(_, _, _)
GetSinkInfoListReply_loop(map, order, protocol_version) ==
    IF order = <<>> THEN <<>>
    ELSE SinkInfo_to_tag_struct(map[Head(order)], protocol_version)
             \o GetSinkInfoListReply_loop(map, Tail(order), protocol_version)

\* GetSinkInfoListReply's to_tag_struct over sinks.iter().
GetSinkInfoListReply_to_tag_struct(sinks, protocol_version) ==
    GetSinkInfoListReply_loop(sinks.map, IdxOrder(DOMAIN sinks.map), protocol_version)

(***************************************************************************)
(* The server (src/server.rs).                                             *)
(***************************************************************************)
\* Length of the authentication cookie in bytes.
COOKIE_LENGTH == 256

\* Two outcomes of thread_rng().fill(&mut data) in AuthCookie::create; they
\* differ in the last byte only.
CookieA == [i \in 1..COOKIE_LENGTH |-> (i * 7) % 256]
CookieB == [CookieA EXCEPT ![COOKIE_LENGTH] = 255]

\* A variant of the cookie comparison that looks only at the bytes the
\* client sent.
cookie_eq_prefix(data, other) ==
    \A i \in 1..Len(other) : i <= Len(data) /\ data[i] = other[i]

\* impl PartialEq<&[u8]> for AuthCookie: equality of slices.
cookie_eq(data, other) == data = other

\* IdxSet::new.  An index (u32) is held as the integer with the same 32
\* bits in two's complement: 0xFFFFFFFF is -1, and + 1 wraps to 0 as the
\* addition of a build without overflow checks does.
IdxSet_new == [map |-> [i \in {} |-> 0], next_idx |-> 0]

\* IdxSet::alloc_idx: the index the next allocation gets.
alloc_idx(set) == set.next_idx

\* IdxSet::alloc, with t the element f(idx) made for the index alloc_idx(set).
IdxSet_alloc(set, t) ==
    [map |-> [i \in (DOMAIN set.map) \cup {alloc_idx(set)} |->
                 IF i = alloc_idx(set) THEN t ELSE set.map[i]],
     next_idx |-> set.next_idx + 1]

\* IdxSet::remove.
IdxSet_remove(set, idx) ==
    [set EXCEPT !.map = [i \in (DOMAIN set.map) \ {idx} |-> set.map[i]]]

\* Sink::new_dummy.
new_dummy(index) ==
    [index |-> index,
     name |-> <<68, 117, 109, 109, 121, 32, 83, 105, 110, 107>>,
     props |-> EmptyProps,
     state |-> 1,
     sample_spec |-> [format |-> 5, channels |-> 2, sample_rate |-> U32FromNat(48000)],
     channel_map |-> <<1, 2>>,
     cvolume |-> <<VOLUME_NORM, VOLUME_NORM>>,
     muted |-> FALSE,
     flags |-> 0,
     ports |-> << [name |-> <<83, 116, 101, 114, 101, 111, 32, 79, 117, 116, 112, 117, 116>>,
                   desc |-> <<>>, priority |-> 0, avail |-> 0] >>,
     active_port |-> 0,
     formats |-> << [encoding |-> 1, props |-> EmptyProps] >>]

\* A variant of ServerData::new that registers no sink.
ServerData_without_sink(auth_cookie) ==
    [cookie |-> auth_cookie, clients |-> IdxSet_new, sinks |-> IdxSet_new]

\* ServerData::new.
ServerData_new(auth_cookie) ==
    [cookie |-> auth_cookie,
     clients |-> IdxSet_new,
     sinks |-> IdxSet_alloc(IdxSet_new, new_dummy(alloc_idx(IdxSet_new)))]

\* A variant of the new Client that starts at the server's own version.
NewClient_latest(idx) ==
    [id |-> idx, protocol_version |-> PROTOCOL_VERSION, authed |-> FALSE,
     props |-> EmptyProps]

\* The Client that ClientHandler::new registers.
NewClient(idx) ==
    [id |-> idx, protocol_version |-> PROTOCOL_MIN_VERSION, authed |-> FALSE,
     props |-> EmptyProps]

\* A variant of with_client_mut that keeps the version and the flag of the
\* session in one place for all clients.
with_client_mut_shared(d, client, c) ==
    [d EXCEPT !.clients.map =
        [o \in DOMAIN @ |->
            IF o = client THEN c
            ELSE [@[o] EXCEPT !.authed = c.authed,
                              !.protocol_version = c.protocol_version]]]

\* ClientHandler::with_client_mut: the server data with the handler's client replaced.
with_client_mut(d, client, c) == [d EXCEPT !.clients.map[client] = c]

\* Result<Packet, PulseError> of handle_control and the server data it
\* leaves, or the panic of the handler.
NoPacket == new_command(<<>>)
ControlOk(packet, d) == [res |-> "ok", packet |-> packet, code |-> 0, data |-> d]
ControlErr(code, d) == [res |-> "err", packet |-> NoPacket, code |-> code, data |-> d]
ControlPanic(d) == [res |-> "panic", packet |-> NoPacket, code |-> 0, data |-> d]

\* A variant of the Auth arm that takes the flag back on a mismatch.
handle_auth_revoking(d, client, cmd) ==
    LET protocol_version == cmd.params.version
        d1 == with_client_mut(d, client,
                  [d.clients.map[client] EXCEPT !.protocol_version = protocol_version])
        d2 == with_client_mut(d1, client, [d1.clients.map[client] EXCEPT !.authed = TRUE])
        d3 == with_client_mut(d1, client, [d1.clients.map[client] EXCEPT !.authed = FALSE])
    IN  IF protocol_version < PROTOCOL_MIN_VERSION THEN ControlErr(Version, d)
        ELSE IF cookie_eq(d.cookie, cmd.params.cookie)
        THEN ControlOk(reply_packet(cmd,
                           AuthReply_to_tag_struct(PROTOCOL_VERSION, FALSE, FALSE)), d2)
        ELSE ControlErr(Access, d3)

\* A variant of the Auth arm that compares the cookie before the version.
handle_auth_cookie_first(d, client, cmd) ==
    LET protocol_version == cmd.params.version
        d1 == with_client_mut(d, client,
                  [d.clients.map[client] EXCEPT !.protocol_version = protocol_version])
        d2 == with_client_mut(d1, client, [d1.clients.map[client] EXCEPT !.authed = TRUE])
    IN  IF ~cookie_eq(d.cookie, cmd.params.cookie) THEN ControlErr(Access, d)
        ELSE IF protocol_version < PROTOCOL_MIN_VERSION THEN ControlErr(Version, d)
        ELSE ControlOk(reply_packet(cmd,
                           AuthReply_to_tag_struct(PROTOCOL_VERSION, FALSE, FALSE)), d2)

\* A variant of the Auth arm that stores the version only once the cookie
\* matched.
handle_auth_version_on_match(d, client, cmd) ==
    LET protocol_version == cmd.params.version
        d1 == with_client_mut(d, client,
                  [d.clients.map[client] EXCEPT !.protocol_version = protocol_version])
        d2 == with_client_mut(d1, client, [d1.clients.map[client] EXCEPT !.authed = TRUE])
    IN  IF protocol_version < PROTOCOL_MIN_VERSION THEN ControlErr(Version, d)
        ELSE IF cookie_eq(d.cookie, cmd.params.cookie)
        THEN ControlOk(reply_packet(cmd,
                           AuthReply_to_tag_struct(PROTOCOL_VERSION, FALSE, FALSE)), d2)
        ELSE ControlErr(Access, d)

\* A variant of the Auth arm that takes the flag back when the version is
\* too old.
handle_auth_version_revokes(d, client, cmd) ==
    LET protocol_version == cmd.params.version
        d0 == with_client_mut(d, client, [d.clients.map[client] EXCEPT !.authed = FALSE])
        d1 == with_client_mut(d, client,
                  [d.clients.map[client] EXCEPT !.protocol_version = protocol_version])
        d2 == with_client_mut(d1, client, [d1.clients.map[client] EXCEPT !.authed = TRUE])
    IN  IF protocol_version < PROTOCOL_MIN_VERSION THEN ControlErr(Version, d0)
        ELSE IF cookie_eq(d.cookie, cmd.params.cookie)
        THEN ControlOk(reply_packet(cmd,
                           AuthReply_to_tag_struct(PROTOCOL_VERSION, FALSE, FALSE)), d2)
        ELSE ControlErr(Access, d1)

\* The Auth arm of handle_control.
handle_auth(d, client, cmd) ==
    LET protocol_version == cmd.params.version
        d1 == with_client_mut(d, client,
                  [d.clients.map[client] EXCEPT !.protocol_version = protocol_version])
        d2 == with_client_mut(d1, client, [d1.clients.map[client] EXCEPT !.authed = TRUE])
    IN  IF protocol_version < PROTOCOL_MIN_VERSION THEN ControlErr(Version, d)
        ELSE IF cookie_eq(d.cookie, cmd.params.cookie)
        THEN ControlOk(reply_packet(cmd,
                           AuthReply_to_tag_struct(PROTOCOL_VERSION, FALSE, FALSE)), d2)
        ELSE ControlErr(Access, d1)

\* ClientHandler::handle_control.
handle_control(d, client, cmd) ==
    LET authed == d.clients.map[client].authed
        protocol_version == d.clients.map[client].protocol_version
    IN
    IF needs_auth(cmd) /\ ~authed THEN ControlErr(Access, d)
    ELSE IF cmd.kind = "Auth" THEN handle_auth(d, client, cmd)
    ELSE IF cmd.kind = "SetClientName"
    THEN ControlOk(reply_packet(cmd, SetClientNameReply_to_tag_struct(client)),
                   with_client_mut(d, client,
                       [d.clients.map[client] EXCEPT
                           !.props = PropExtend(@, cmd.params.props)]))
    ELSE IF cmd.kind = "CreatePlaybackStream" THEN ControlErr(NotImplemented, d)
    ELSE IF cmd.kind = "GetSinkInfoList"
    THEN ControlOk(reply_packet(cmd,
                       GetSinkInfoListReply_to_tag_struct(d.sinks, protocol_version)), d)
    ELSE IF cmd.kind = "GetClientInfoList"
    THEN ControlOk(reply_packet(cmd, GetClientInfoListReply_to_tag_struct(d.clients)), d)
    ELSE IF cmd.kind = "GetModuleInfoList"
    THEN ControlOk(reply_packet(cmd,
                       GetModuleInfoListReply_to_tag_struct(protocol_version)), d)
    ELSE IF cmd.kind \in {"Reply", "Error"} THEN ControlErr(Protocol, d)
    ELSE \* GetSourceInfoList, GetCardInfoList, GetSinkInputInfoList,
         \* GetSourceOutputInfoList, GetSampleInfoList, RegisterMemfdShmid:
         \* unimplemented!()
         ControlPanic(d)

\* Result<Packet, Error> of handle_packet, the command it parsed (if any)
\* and the server data it leaves, or the panic of the handler.
HandleReply(packet, cmd, d) ==
    [res |-> "reply", packet |-> packet, parsed |-> TRUE, cmd |-> cmd, data |-> d]
HandleErr(d) ==
    [res |-> "err", packet |-> NoPacket, parsed |-> FALSE, cmd |-> NoCommand, data |-> d]
HandlePanic(parsed, cmd, d) ==
    [res |-> "panic", packet |-> NoPacket, parsed |-> parsed, cmd |-> cmd, data |-> d]

\* Message::from_packet: a control message, or unimplemented!().
from_packet(packet) ==
    IF packet.channel = CONTROL_CHANNEL
    THEN [res |-> "ok", tagstruct |-> packet.payload]
    ELSE [res |-> "panic", tagstruct |-> <<>>]

\* ClientHandler::handle_packet.
handle_packet(d, client, packet) ==
    LET reply(cmd, r) ==
            IF r.res = "panic" THEN HandlePanic(TRUE, cmd, r.data)
            ELSE IF r.res = "ok" THEN HandleReply(r.packet, cmd, r.data)
            ELSE HandleReply(error_packet(cmd, r.code), cmd, r.data)
        control(parse) ==
            IF parse.res = "panic" THEN HandlePanic(FALSE, NoCommand, d)
            ELSE IF parse.res = "err" THEN HandleErr(d)
            ELSE reply(parse.cmd, handle_control(d, client, parse.cmd))
        message(msg) ==
            IF msg.res = "panic" THEN HandlePanic(FALSE, NoCommand, d)
            ELSE control(from_tagstruct(msg.tagstruct,
                                        d.clients.map[client].protocol_version))
    IN  message(from_packet(packet))

(***************************************************************************)
(* The packets the clients send.                                           *)
(***************************************************************************)
\* The head every arm of Command's to_tag_struct writes: opcode and tag.
Command_to_tag_struct(opcode, tag, params) ==
    w_u32(U32FromNat(opcode)) \o w_u32(tag) \o params

\* Auth's to_tag_struct: version | FLAG_SHM | FLAG_MEMFD, and the cookie.
Auth_to_tag_struct(version, supports_shm, supports_memfd, cookie) ==
    w_u32([hi |-> (IF supports_shm THEN 32768 ELSE 0)
                      + (IF supports_memfd THEN 16384 ELSE 0),
           lo |-> version])
        \o w_arbitrary(cookie)

\* Two tags a client picks for its commands.
TagA == [hi |-> 43981, lo |-> 1]
TagB == [hi |-> 0, lo |-> 2]

\* "probe\0" and "other\0", values of application.name.
NameProbe == <<112, 114, 111, 98, 101, 0>>
NameOther == <<111, 116, 104, 101, 114, 0>>

\* The fields of a CreatePlaybackStream as a client of protocol 13 writes
\* them, for the sink given by index and name.
StreamParams13(sink_index, sink_name) ==
    w_sample_spec([format |-> 3, channels |-> 2, sample_rate |-> U32FromNat(44100)])
        \o w_channel_map(<<1, 2>>)
        \o w_u32(sink_index)
        \o sink_name
        \o w_u32(INVALID_INDEX)
        \o w_bool(FALSE)
        \o w_u32(INVALID_INDEX) \o w_u32(INVALID_INDEX) \o w_u32(INVALID_INDEX)
        \o w_u32(U32FromNat(0))
        \o w_cvolume(<<VOLUME_NORM, VOLUME_NORM>>)
        \o w_bool(FALSE) \o w_bool(FALSE) \o w_bool(FALSE) \o w_bool(FALSE)
        \o w_bool(FALSE) \o w_bool(FALSE) \o w_bool(FALSE)
        \o w_bool(FALSE) \o w_bool(TRUE)
        \o w_proplist([k \in {<<109, 101, 100, 105, 97, 46, 114, 111, 108, 101>>} |->
                          NameOther])

\* The fields protocols 14 to 21 added, with one format info.
StreamParams32 ==
    w_bool(TRUE) \o w_bool(FALSE)
        \o w_bool(FALSE) \o w_bool(FALSE) \o w_bool(FALSE)
        \o w_bool(FALSE)
        \o w_bool(FALSE)
        \o w_u8(1) \o w_format_info(1, EmptyProps)

Control(payload) == new_command(payload)

\* The packets a client may send: well-formed commands of every kind the
\* parser knows, and malformed ones.
Inputs ==
    << \* 1..8: Auth
       Control(Command_to_tag_struct(PA_COMMAND_AUTH, TagA,
                   Auth_to_tag_struct(13, FALSE, FALSE, CookieA))),
       Control(Command_to_tag_struct(PA_COMMAND_AUTH, TagB,
                   Auth_to_tag_struct(13, FALSE, FALSE, CookieB))),
       Control(Command_to_tag_struct(PA_COMMAND_AUTH, TagB,
                   Auth_to_tag_struct(32, TRUE, TRUE, CookieA))),
       Control(Command_to_tag_struct(PA_COMMAND_AUTH, TagA,
                   Auth_to_tag_struct(21, FALSE, TRUE, CookieB))),
       Control(Command_to_tag_struct(PA_COMMAND_AUTH, TagA,
                   Auth_to_tag_struct(12, FALSE, FALSE, CookieA))),
       Control(Command_to_tag_struct(PA_COMMAND_AUTH, TagB,
                   Auth_to_tag_struct(12, TRUE, FALSE, CookieB))),
       Control(Command_to_tag_struct(PA_COMMAND_AUTH, TagA,
                   Auth_to_tag_struct(13, FALSE, FALSE,
                       SubSeq(CookieA, 1, COOKIE_LENGTH - 1)))),
       Control(Command_to_tag_struct(PA_COMMAND_AUTH, TagB,
                   Auth_to_tag_struct(14, FALSE, FALSE, <<>>))),
       \* 9..10: SetClientName
       Control(Command_to_tag_struct(PA_COMMAND_SET_CLIENT_NAME, TagA,
                   w_proplist([k \in {PROP_APPLICATION_NAME} |-> NameProbe]))),
       Control(Command_to_tag_struct(PA_COMMAND_SET_CLIENT_NAME, TagB,
                   w_proplist([k \in {PROP_APPLICATION_NAME} |-> NameOther]))),
       \* 11..15: the info lists
       Control(Command_to_tag_struct(PA_COMMAND_GET_SINK_INFO_LIST, TagA, <<>>)),
       Control(Command_to_tag_struct(PA_COMMAND_GET_CLIENT_INFO_LIST, TagB, <<>>)),
       Control(Command_to_tag_struct(PA_COMMAND_GET_MODULE_INFO_LIST, TagA, <<>>)),
       Control(Command_to_tag_struct(PA_COMMAND_GET_SOURCE_INFO_LIST, TagB, <<>>)),
       Control(Command_to_tag_struct(PA_COMMAND_GET_SAMPLE_INFO_LIST, TagA, <<>>)),
       \* 16: RegisterMemfdShmid
       Control(Command_to_tag_struct(PA_COMMAND_REGISTER_MEMFD_SHMID, TagB,
                   w_u32(U32FromNat(7)))),
       \* 17..19: CreatePlaybackStream
       Control(Command_to_tag_struct(PA_COMMAND_CREATE_PLAYBACK_STREAM, TagA,
                   StreamParams13(INVALID_INDEX, w_null_str))),
       Control(Command_to_tag_struct(PA_COMMAND_CREATE_PLAYBACK_STREAM, TagB,
                   StreamParams13(U32FromNat(0), w_null_str) \o StreamParams32)),
       Control(Command_to_tag_struct(PA_COMMAND_CREATE_PLAYBACK_STREAM, TagA,
                   StreamParams13(U32FromNat(0), w_str(new_dummy(0).name)))),
       \* 20: a REPLY
       Control(Command_to_tag_struct(PA_COMMAND_REPLY, TagB, w_u32(U32FromNat(5)))),
       \* 21..23: opcodes the parser has no arm for, and one outside the enum
       Control(Command_to_tag_struct(PA_COMMAND_ERROR, TagA, w_u32(U32FromNat(Access)))),
       Control(Command_to_tag_struct(PA_COMMAND_GET_SINK_INFO, TagB,
                   w_u32(U32FromNat(0)) \o w_null_str)),
       Control(Command_to_tag_struct(PA_COMMAND_REGISTER_MEMFD_SHMID + 1, TagA, <<>>)),
       \* 24..29: malformed payloads
       Control(<<>>),
       Control(<<TAG_U32, 0, 0>>),
       Control(<<90>> \o Command_to_tag_struct(PA_COMMAND_GET_SINK_INFO_LIST, TagA, <<>>)),
       Control(Command_to_tag_struct(PA_COMMAND_GET_SINK_INFO_LIST, TagB,
                   w_u32(U32FromNat(0)))),
       Control(Command_to_tag_struct(PA_COMMAND_SET_CLIENT_NAME, TagA, w_str(NameProbe))),
       Control(Command_to_tag_struct(PA_COMMAND_GET_MODULE_INFO_LIST, TagB,
                   <<TAG_TIMEVAL, 0, 0, 0, 0, 0, 0, 0, 0>>)),
       \* 30: a memblock packet
       [channel |-> 0, flags |-> U32FromNat(0), payload |-> <<1, 2, 3, 4>>],
       \* 31: EXIT, an opcode of the enumeration the parser has no arm for
       Control(Command_to_tag_struct(PA_COMMAND_EXIT, TagB, <<>>)) >>

\* The property lists of further SetClientName commands: a name, a name
\* and a description, a description alone, and no property.
NameProps ==
    << [k \in {PROP_APPLICATION_NAME} |-> NameOther],
       [k \in {PROP_APPLICATION_NAME, PROP_DEVICE_DESCRIPTION} |->
           IF k = PROP_APPLICATION_NAME THEN NameProbe ELSE NameOther],
       [k \in {PROP_DEVICE_DESCRIPTION} |-> NameProbe],
       EmptyProps >>

NameInputs ==
    [j \in 1..Len(NameProps) |->
        Control(Command_to_tag_struct(PA_COMMAND_SET_CLIENT_NAME, TagA,
                                      w_proplist(NameProps[j])))]

\* Every packet of the model, by its index.
Input(i) == IF i <= Len(Inputs) THEN Inputs[i] ELSE NameInputs[i - Len(Inputs)]

(***************************************************************************)
(* The frame codec (PacketCodec): a descriptor of 20 bytes, then `length`  *)
(* bytes of payload.                                                       *)
(***************************************************************************)
\* mem::size_of::<Descriptor>(): five fields of four bytes.
DESCRIPTOR_SIZE == 20

\* An i32 from its four big-endian bytes (two's complement).
I32OfBytes(b3, b2, b1, b0) ==
    (IF b3 >= 128 THEN b3 - 256 ELSE b3) * 16777216 + b2 * 65536 + b1 * 256 + b0

\* The four big-endian bytes of an i32.
I32Bytes(n) ==
    LET m == IF n < 0 THEN (n + 2147483647) + 1 ELSE n
    IN  << (m \div 16777216) + (IF n < 0 THEN 128 ELSE 0),
           (m \div 65536) % 256, (m \div 256) % 256, m % 256 >>

\* PacketCodec::new: no descriptor is cached.  An Option<Descriptor> is a
\* sequence of at most one descriptor.
PacketCodec_new == [desc |-> <<>>]

\* Packet::new_command, with the whole descriptor.
Packet_new_command(payload) ==
    [desc |-> [length |-> U32FromNat(Len(payload)), channel |-> CONTROL_CHANNEL,
               offset_hi |-> U32FromNat(0), offset_lo |-> U32FromNat(0),
               flags |-> U32FromNat(0)],
     payload |-> payload]

\* bincode, big-endian, of a Descriptor: its five fields in order.
serialize_desc(desc) ==
    U32Bytes(desc.length) \o I32Bytes(desc.channel) \o U32Bytes(desc.offset_hi)
        \o U32Bytes(desc.offset_lo) \o U32Bytes(desc.flags)

\* A reader taking the fields as little-endian.
deserialize_desc_little_endian(src) ==
    [length |-> U32OfBytes(src[4], src[3], src[2], src[1]),
     channel |-> I32OfBytes(src[8], src[7], src[6], src[5]),
     offset_hi |-> U32OfBytes(src[12], src[11], src[10], src[9]),
     offset_lo |-> U32OfBytes(src[16], src[15], src[14], src[13]),
     flags |-> U32OfBytes(src[20], src[19], src[18], src[17])]

\* bincode, big-endian, reads a Descriptor from the first 20 bytes of src.
deserialize_desc(src) ==
    [length |-> U32OfBytes(src[1], src[2], src[3], src[4]),
     channel |-> I32OfBytes(src[5], src[6], src[7], src[8]),
     offset_hi |-> U32OfBytes(src[9], src[10], src[11], src[12]),
     offset_lo |-> U32OfBytes(src[13], src[14], src[15], src[16]),
     flags |-> U32OfBytes(src[17], src[18], src[19], src[20])]

\* BytesMut::resize(n, 0): truncated, or filled with zeroes.
resize(buf, n) == [i \in 1..n |-> IF i <= Len(buf) THEN buf[i] ELSE 0]

\* Encoder::encode: dst is resized to the frame's size and the frame is
\* written from its start.  (The assertion holds of what the model encodes.)
encode(item, dst) ==
    LET n == DESCRIPTOR_SIZE + U32ToNat(item.desc.length)
        write(buf, bytes) == [i \in 1..Len(buf) |-> IF i <= Len(bytes) THEN bytes[i] ELSE buf[i]]
    IN  write(resize(dst, n), serialize_desc(item.desc) \o item.payload)

\* src.len() < size_of::<Descriptor>() + payload_len (the buffers of the
\* model are shorter than 65536 bytes).
payload_missing(src, payload_len) ==
    payload_len.hi > 0 \/ Len(src) < DESCRIPTOR_SIZE + payload_len.lo

\* Decoder::decode with the cached descriptor desc and the buffer src: the
\* result, the descriptor cached afterwards and the buffer left.
decode(desc, src) ==
    LET wait(cache) ==
            [res |-> "none", desc |-> cache, src |-> src,
             item |-> Packet_new_command(<<>>)]
        yield(d) ==
            [res |-> "some", desc |-> <<>>, src |-> <<>>,
             item |-> [desc |-> d,
                       payload |-> SubSeq(src, DESCRIPTOR_SIZE + 1,
                                          DESCRIPTOR_SIZE + d.length.lo)]]
        have(d) == IF payload_missing(src, d.length) THEN wait(<<d>>) ELSE yield(d)
    IN  IF Len(src) < DESCRIPTOR_SIZE
        THEN wait(desc)
        ELSE have(IF desc = <<>> THEN deserialize_desc(src) ELSE desc[1])

(***************************************************************************)
(* The state machine: the listener accepts connections, every connection   *)
(* has a handler task, and a handler handles one packet at a time.         *)
(***************************************************************************)
VARIABLES
    data,       \* ServerData: the cookie, the clients and the sinks
    handlers,   \* per connection, in the order accepted: the handler's client
                \* index and whether its task is "open", "closed" or "panicked"
    sent,       \* per connection: the packets handed to the sink (tx)
    parsed,     \* history, per connection: the tags of the commands parsed
    good_auth,  \* history, per connection: an Auth with a supported version
                \* and the server's cookie was handled
    handled,    \* packets handled so far, over all connections
    last,       \* history: the step taken last: the connection, the index in
                \* Inputs of the packet handled, and the state before the step
    codec,      \* a PacketCodec reading a byte stream: the bytes still on the
                \* wire, the buffer src, the cached descriptor, the packets
                \* yielded, and the history of its last step (for a call of
                \* the decoder: the buffer it was called on and its result)
    ids,        \* an IdxSet under alloc and remove: the set, the indices alloc
                \* returned, in order, whether a call panicked, and the outcome
                \* of the last call
    plist,      \* a PropList under the calls of its API: the map and the name
                \* of the last call
    ts,         \* a TagStructWriter and a TagStructReader: the writer's buffer
                \* and the values written to it, the reader's data and cursor,
                \* whether a call panicked, and the history: the entries a
                \* property list on the wire was made of, and the last call
    vol,        \* a Volume under its conversions: the last call, its argument
                \* and its result
    dir,        \* the runtime directory and the servers being started on it:
                \* the socket file, the cookie file, and each server's place
                \* in Server::new_unix
    locks,      \* the two RwLocks of ServerData and the handlers that use
                \* them: who holds which lock, and each handler's place in the
                \* handling of its packet
    fds         \* the trace proxy's forwarding loop: the descriptors it has
                \* received, passed on and closed, and its place in the loop

vars == <<data, handlers, sent, parsed, good_auth, handled, last, codec, ids, plist, ts,
          vol, dir, locks, fds>>

\* The connections accepted so far.
Conns == 1..Len(handlers)
\* The connections whose handler task is running.
Open == { h \in Conns : handlers[h].state = "open" }
\* The client record of connection h.
ClientOf(h) == data.clients.map[handlers[h].client]

\* A variant of the drop that leaves the client registered.
drop_leaves_client(d, client) == d

\* impl Drop for ClientHandler.
drop(d, client) == [d EXCEPT !.clients = IdxSet_remove(@, client)]

\* A variant of the end of a turn that keeps the task running after an error.
process_result_keep_open(st, h, r) ==
    IF r.res = "reply"
    THEN [data |-> r.data,
          handlers |-> st.handlers,
          sent |-> [st.sent EXCEPT ![h] = Append(@, r.packet)]]
    ELSE [data |-> IF r.res = "err" THEN r.data ELSE drop(r.data, st.handlers[h].client),
          handlers |-> [st.handlers EXCEPT ![h].state =
                           IF r.res = "err" THEN "open" ELSE "panicked"],
          sent |-> st.sent]

\* The end of one turn of the task of process(): the result r of
\* handle_packet is a reply handed to the sink, or an error or a panic that
\* ends the task and drops the handler.  st is [data, handlers, sent].
process_result(st, h, r) ==
    IF r.res = "reply"
    THEN [data |-> r.data,
          handlers |-> st.handlers,
          sent |-> [st.sent EXCEPT ![h] = Append(@, r.packet)]]
    ELSE [data |-> drop(r.data, st.handlers[h].client),
          handlers |-> [st.handlers EXCEPT ![h].state =
                           IF r.res = "err" THEN "closed" ELSE "panicked"],
          sent |-> st.sent]

\* One turn of the task of process(): the closure over handle_packet.
process(st, h, packet) ==
    process_result(st, h, handle_packet(st.data, st.handlers[h].client, packet))

\* The part of the state process() works on.
State == [data |-> data, handlers |-> handlers, sent |-> sent]

\* The record of a step: the operation, the connection, the index of the
\* packet (0 when the step handles none), what the handler's parser made of
\* the packet, and the state the step starts in, less the cookie, which
\* never changes.
Step(op, h, i, parse) ==
    [op |-> op, conn |-> h, input |-> i, parse |-> parse,
     before |-> [clients |-> data.clients, sinks |-> data.sinks,
                 handlers |-> handlers, sent |-> sent]]

\* The step parsed nothing.
NoParse == [res |-> "none", cmd |-> NoCommand]

\* What the parser made of the packet, read off the result r of
\* handle_packet: a command, an error, or a panic before any command.
parse_of(r) ==
    [res |-> IF r.parsed THEN "ok" ELSE IF r.res = "err" THEN "err" ELSE "panic",
     cmd |-> r.cmd]

\* A codec made by PacketCodec::new, about to read the frames fs, each
\* encoded into an empty buffer and sent in order, and then the bytes rest.
Encoded(fs) ==
    LET RECURSIVE bytes(_)
        bytes(k) == IF k > Len(fs) THEN <<>>
                    ELSE encode(Packet_new_command(fs[k]), <<>>) \o bytes(k + 1)
    IN  bytes(1)

CodecStart(fs, rest) ==
    [frames |-> fs, rest |-> rest, wire |-> Encoded(fs) \o rest, src |-> <<>>,
     desc |-> PacketCodec_new.desc, yielded |-> <<>>, readable |-> FALSE,
     starved |-> FALSE,
     last |-> [op |-> "new", src |-> <<>>, res |-> "none", yielded |-> 0,
               starved |-> FALSE]]

\* A writer on an empty buffer (TagStructWriter::new), or a reader on the
\* data given (TagStructReader::from_raw), before any call.
TsStart(r, reader) ==
    [w |-> <<>>, vals |-> <<>>, r |-> r, made |-> <<>>, reader |-> reader, pos |-> 0,
     panicked |-> FALSE,
     last |-> [op |-> "new", res |-> ReadEof, at |-> 0,
               arg |-> [v |-> NoValue, version |-> 0]]]

\* A PropList no call has been made on yet.
PlStart(map) == [map |-> map, last |-> "new"]

\* No conversion of a Volume has been called, no server is being started,
\* no handler is running and the proxy has not begun to forward.
F32Zero == [kind |-> "fin", neg |-> FALSE, m |-> 0, e |-> 0]
VolStart == [op |-> "new", raw |-> 0, arg |-> F32Zero, lin |-> F32Zero, db |-> F32Zero]
DirStart == [op |-> "new"]
LocksStart == [op |-> "new"]
FdsStart == [op |-> "new"]
Elsewhere == vol = VolStart /\ dir = DirStart /\ locks = LocksStart /\ fds = FdsStart

\* An IdxSet no call has been made on yet.
IdxStart(set) == [set |-> set, returned |-> <<>>, panicked |-> FALSE, last |-> "new"]

\* Server::new_unix and ServerData::new, for either cookie.
Init ==
    /\ codec = CodecStart(<<>>, <<>>)
    /\ plist = PlStart(EmptyProps)
    /\ ts = TsStart(<<>>, FALSE)
    /\ ids = IdxStart(IdxSet_new)
    /\ data \in { ServerData_new(c) : c \in {CookieA, CookieB} }
    /\ handlers = <<>>
    /\ sent = <<>>
    /\ parsed = <<>>
    /\ good_auth = <<>>
    /\ handled = 0
    /\ Elsewhere
    /\ last = [op |-> "new", conn |-> 0, input |-> 0, parse |-> NoParse,
               before |-> [clients |-> data.clients, sinks |-> data.sinks,
                           handlers |-> <<>>, sent |-> <<>>]]

\* Server::listen accepts a connection: process() creates the handler,
\* and ClientHandler::new registers its client.
Listen ==
    /\ Len(handlers) < MaxConns
    /\ data' = [data EXCEPT !.clients = IdxSet_alloc(@, NewClient(alloc_idx(@)))]
    /\ handlers' = Append(handlers, [client |-> alloc_idx(data.clients), state |-> "open"])
    /\ sent' = Append(sent, <<>>)
    /\ parsed' = Append(parsed, <<>>)
    /\ good_auth' = Append(good_auth, FALSE)
    /\ last' = Step("listen", Len(handlers) + 1, 0, NoParse)
    /\ UNCHANGED <<vol, dir, locks, fds, handled, codec, ids, plist, ts>>

\* The history of connection h after the result r of handle_packet.
parsed_after(h, r) ==
    IF r.parsed THEN [parsed EXCEPT ![h] = Append(@, r.cmd.tag)] ELSE parsed

good_auth_after(h, r) ==
    IF /\ r.parsed
       /\ r.cmd.kind = "Auth"
       /\ r.cmd.params.version >= PROTOCOL_MIN_VERSION
       /\ r.cmd.params.cookie = data.cookie
    THEN [good_auth EXCEPT ![h] = TRUE]
    ELSE good_auth

\* The handler of connection h is given the packet Input(i).
Packet(h, i) ==
    LET turn(r, next) ==
            /\ data' = next.data
            /\ handlers' = next.handlers
            /\ sent' = next.sent
            /\ parsed' = parsed_after(h, r)
            /\ good_auth' = good_auth_after(h, r)
            /\ last' = Step("packet", h, i, parse_of(r))
        handle(r) == turn(r, process_result(State, h, r))
    IN  /\ h \in Open
        /\ handled < MaxPackets
        /\ handle(handle_packet(data, handlers[h].client, Input(i)))
        /\ handled' = handled + 1
        /\ UNCHANGED <<vol, dir, locks, fds, codec, ids, plist, ts>>

\* The client of connection h closes its socket: the stream of packets
\* ends, the task completes and the handler is dropped.
Hangup(h) ==
    /\ h \in Open
    /\ data' = drop(data, handlers[h].client)
    /\ handlers' = [handlers EXCEPT ![h].state = "closed"]
    /\ last' = Step("hangup", h, 0, NoParse)
    /\ UNCHANGED <<vol, dir, locks, fds, sent, parsed, good_auth, handled, codec, ids, plist, ts>>

Next ==
    \/ Listen
    \/ \E h \in 1..MaxConns, i \in 1..Len(Inputs) : Packet(h, i)
    \/ \E h \in 1..MaxConns : Hangup(h)

Spec == Init /\ [][Next]_vars

(***************************************************************************)
(* The frame codec reading a stream (process(): PacketCodec::new()         *)
(* .framed(stream)).  The frames and the bytes after them are chosen at    *)
(* the start; the stream delivers them in chunks of any size, and the      *)
(* decoder is called on the buffer until it yields nothing.                *)
(***************************************************************************)
\* The most frames on the wire.
MaxFrames == 2

\* The payloads of the frames.
Payloads == { <<>>, <<7>>, <<8, 9>> }

FrameSeqs == UNION { [1..n -> Payloads] : n \in 0..MaxFrames }

\* u32::max_value().
U32Max == [hi |-> 65535, lo |-> 65535]

\* A descriptor announcing 4 GiB of payload, and one byte of it.
Oversized ==
    serialize_desc([Packet_new_command(<<>>).desc EXCEPT !.length = U32Max]) \o <<1>>

CodecInit ==
    /\ plist = PlStart(EmptyProps)
    /\ ts = TsStart(<<>>, FALSE)
    /\ codec \in { CodecStart(fs, <<>>) : fs \in FrameSeqs }
                \cup { CodecStart(fs, Oversized) : fs \in { <<>>, << <<7>> >> } }
    /\ ids = IdxStart(IdxSet_new)
    /\ data = ServerData_new(CookieA)
    /\ handlers = <<>>
    /\ sent = <<>>
    /\ parsed = <<>>
    /\ good_auth = <<>>
    /\ handled = 0
    /\ Elsewhere
    /\ last = [op |-> "new", conn |-> 0, input |-> 0, parse |-> NoParse,
               before |-> [clients |-> data.clients, sinks |-> data.sinks,
                           handlers |-> <<>>, sent |-> <<>>]]

server_vars == <<data, handlers, sent, parsed, good_auth, handled, last>>

\* The stream delivers the next n bytes: they are appended to the buffer.
Feed(n) ==
    /\ ~codec.readable
    /\ n \in 1..Len(codec.wire)
    /\ codec' = [codec EXCEPT
                    !.src = @ \o SubSeq(codec.wire, 1, n),
                    !.wire = SubSeq(@, n + 1, Len(@)),
                    !.readable = TRUE,
                    !.last = [op |-> "feed", src |-> <<>>, res |-> "none",
                              yielded |-> Len(codec.yielded),
                              starved |-> codec.starved]]
    /\ UNCHANGED <<vol, dir, locks, fds, server_vars, ids, plist, ts>>

\* The decoder is called on the buffer.
Decode ==
    LET turn(r) ==
            codec' = [codec EXCEPT
                        !.src = r.src,
                        !.desc = r.desc,
                        !.yielded = IF r.res = "some" THEN Append(@, r.item) ELSE @,
                        !.readable = (r.res = "some"),
                        !.starved = (r.res = "none" /\ (codec.starved \/ codec.src # <<>>)),
                        !.last = [op |-> "decode", src |-> codec.src, res |-> r.res,
                                  yielded |-> Len(codec.yielded),
                                  starved |-> codec.starved]]
    IN  /\ codec.readable
        /\ turn(decode(codec.desc, codec.src))
        /\ UNCHANGED <<vol, dir, locks, fds, server_vars, ids, plist, ts>>

CodecNext ==
    \/ \E n \in 1..(MaxFrames * (DESCRIPTOR_SIZE + 2) + DESCRIPTOR_SIZE + 1) : Feed(n)
    \/ Decode

CodecSpec == CodecInit /\ [][CodecNext]_vars

(***************************************************************************)
(* SetClientName on clients that have properties.  The server has accepted *)
(* two connections, and each has sent none, one or two packets: an Auth    *)
(* with the server's cookie, and a SetClientName after it.                 *)
(***************************************************************************)
\* The state after Server::listen accepted two connections.
Accepted ==
    LET one(d) == [d EXCEPT !.clients = IdxSet_alloc(@, NewClient(alloc_idx(@)))]
        two(d1, d2) ==
            [data |-> d2,
             handlers |-> << [client |-> alloc_idx(ServerData_new(CookieA).clients),
                              state |-> "open"],
                             [client |-> alloc_idx(d1.clients), state |-> "open"] >>,
             sent |-> << <<>>, <<>> >>]
        both(d1) == two(d1, one(d1))
    IN  both(one(ServerData_new(CookieA)))

\* The packets a connection has sent before, as indices of Input.
Scripts == { <<>>, <<1>>, <<3>>, <<1, 9>>, <<3, 10>>, <<1, Len(Inputs) + 2>> }

\* The state after connection h sent the packets of the script.
RECURSIVE Played(_, _, _)
Played(st, h, script) ==
    IF script = <<>> THEN st
    ELSE Played(process(st, h, Input(Head(script))), h, Tail(script))

NameStart(st, s1, s2) ==
    /\ data = st.data
    /\ handlers = st.handlers
    /\ sent = st.sent
    /\ parsed = << [k \in 1..Len(s1) |-> ReadFields(Input(s1[k]).payload, 0,
                                                       <<"U32", "U32">>, <<>>).val[2].n],
                   [k \in 1..Len(s2) |-> ReadFields(Input(s2[k]).payload, 0,
                                                       <<"U32", "U32">>, <<>>).val[2].n] >>
    /\ good_auth = << s1 # <<>>, s2 # <<>> >>
    /\ handled = 0
    /\ Elsewhere
    /\ last = [op |-> "new", conn |-> 0, input |-> 0, parse |-> NoParse,
               before |-> [clients |-> st.data.clients, sinks |-> st.data.sinks,
                           handlers |-> st.handlers, sent |-> st.sent]]

NameInit ==
    /\ codec = CodecStart(<<>>, <<>>)
    /\ plist = PlStart(EmptyProps)
    /\ ts = TsStart(<<>>, FALSE)
    /\ ids = IdxStart(IdxSet_new)
    /\ \E s1, s2 \in Scripts : NameStart(Played(Played(Accepted, 1, s1), 2, s2), s1, s2)

\* A connection sends one of the further SetClientName commands, or asks
\* for the list of clients (the packet Inputs[12]), or closes its socket.
NameNext ==
    \/ \E h \in 1..MaxConns, j \in 1..Len(NameProps) : Packet(h, Len(Inputs) + j)
    \/ \E h \in 1..MaxConns : Packet(h, 12)
    \/ \E h \in 1..MaxConns : Hangup(h)

NameSpec == NameInit /\ [][NameNext]_vars

(***************************************************************************)
(* One IdxSet under alloc and remove.  The set at the start is new, or has *)
(* had 2^32 - 2 allocations and keeps some of the items.                   *)
(***************************************************************************)
\* The most calls of alloc.
MaxAllocs == 3

\* The items stored.
Items == { "a", "b" }

\* u32::max_value() as an index, and the indices just below it.
IdxMax == -1
IdxNearMax == IdxMax - 1

\* a < b on indices (u32).
IdxLt(a, b) == IF (a < 0) = (b < 0) THEN a < b ELSE b < 0

\* The indices the calls of the model name.
Indices == { 0, 1, 2, IdxNearMax - 1, IdxNearMax, IdxMax }

\* The sets an IdxSet can have become when its next index is n: items under
\* some of the indices below n.
SetsAt(n) ==
    { [map |-> [i \in D |-> "a"], next_idx |-> n] :
          D \in SUBSET { i \in Indices : IdxLt(i, n) } }

IdxSetInit ==
    /\ ids \in { IdxStart(set) : set \in SetsAt(0) \cup SetsAt(IdxNearMax) }
    /\ codec = CodecStart(<<>>, <<>>)
    /\ plist = PlStart(EmptyProps)
    /\ ts = TsStart(<<>>, FALSE)
    /\ data = ServerData_new(CookieA)
    /\ handlers = <<>>
    /\ sent = <<>>
    /\ parsed = <<>>
    /\ good_auth = <<>>
    /\ handled = 0
    /\ Elsewhere
    /\ last = [op |-> "new", conn |-> 0, input |-> 0, parse |-> NoParse,
               before |-> [clients |-> data.clients, sinks |-> data.sinks,
                           handlers |-> <<>>, sent |-> <<>>]]

\* IdxSet::alloc(|idx| t).  At next_idx = u32::MAX the addition of
\* alloc_idx overflows: a build with overflow checks panics there, a build
\* without them wraps to 0 (and next_idx - 1 wraps back to u32::MAX).  An
\* index found occupied is a panic.
Alloc(t) ==
    /\ ~ids.panicked
    /\ Len(ids.returned) < MaxAllocs
    /\ \/ /\ ids.set.next_idx = IdxMax
          /\ ids' = [ids EXCEPT !.panicked = TRUE, !.last = "overflow"]
       \/ /\ alloc_idx(ids.set) \in DOMAIN ids.set.map
          /\ ids' = [ids EXCEPT !.set.next_idx = @ + 1, !.panicked = TRUE,
                                !.last = "occupied"]
       \/ /\ alloc_idx(ids.set) \notin DOMAIN ids.set.map
          /\ ids' = [ids EXCEPT !.set = IdxSet_alloc(@, t),
                                !.returned = Append(@, alloc_idx(ids.set)),
                                !.last = "alloc"]
    /\ UNCHANGED <<vol, dir, locks, fds, server_vars, codec, plist, ts>>

\* IdxSet::remove(idx).
Remove(idx) ==
    /\ ~ids.panicked
    /\ ids' = [ids EXCEPT !.set = IdxSet_remove(@, idx), !.last = "remove"]
    /\ UNCHANGED <<vol, dir, locks, fds, server_vars, codec, plist, ts>>

IdxSetNext ==
    \/ \E t \in Items : Alloc(t)
    \/ \E idx \in Indices : Remove(idx)

IdxSetSpec == IdxSetInit /\ [][IdxSetNext]_vars

(***************************************************************************)
(* One tagstruct under its writer and its reader.  A TagStructWriter on an *)
(* empty buffer takes typed writes (write, write_versioned), writes of a   *)
(* Value (write_value, extend) or the sink list reply, and is then turned  *)
(* into a reader (to_reader); or a reader is made on bytes that came off   *)
(* the wire (TagStructReader::from_raw) and read() is called on it until   *)
(* it returns the end or an error.                                         *)
(***************************************************************************)
\* Values written in a row to one writer.
MaxValues == 2
\* Entries of a property list that came off the wire.
MaxEntries == 2

\* The protocol versions the writes are made at: the oldest, the last one
\* before 15, 15 itself, the first with ports and the server's own.
Versions == {PROTOCOL_MIN_VERSION, 14, 15, 16, PROTOCOL_VERSION}

\* A sample specification as new_checked returns it.
SampleSpecOf(format, channels, rate) ==
    [type |-> "SampleSpec", format |-> format, channels |-> channels,
     sample_rate |-> U32FromNat(rate)]

\* Property lists as decoding leaves them.
OneProp == [k \in {<<97>>} |-> <<1, 0>>]

\* Value: at least one value of every variant a typed write exists for
\* (a sequence: the variants are records of different shapes).
Values ==
    << [type |-> "String", bytes |-> <<>>], [type |-> "String", bytes |-> <<104, 105>>],
      [type |-> "NullString"],
      [type |-> "U32", n |-> U32FromNat(0)], [type |-> "U32", n |-> U32Max],
      [type |-> "U8", n |-> 255],
      [type |-> "U64", bytes |-> <<255, 0, 0, 0, 0, 0, 0, 1>>],
      [type |-> "S64", bytes |-> <<128, 0, 0, 0, 0, 0, 0, 2>>],
      [type |-> "Arbitrary", bytes |-> <<>>], [type |-> "Arbitrary", bytes |-> <<1, 0>>],
      [type |-> "Boolean", b |-> TRUE], [type |-> "Boolean", b |-> FALSE],
      SampleSpecOf(0, 1, 1), SampleSpecOf(9, 2, 48000),
      SampleSpecOf(SAMPLE_FORMAT_LAST, CHANNELS_MAX, (RATE_MAX * 101) \div 100),
      [type |-> "ChannelMap", map |-> <<>>], [type |-> "ChannelMap", map |-> <<1, 2>>],
      [type |-> "CVolume", volumes |-> <<VOLUME_NORM, VOLUME_MAX>>],
      [type |-> "Volume", raw |-> VOLUME_MAX], [type |-> "Volume", raw |-> U32FromNat(0)],
      [type |-> "PropList", props |-> EmptyProps], [type |-> "PropList", props |-> OneProp],
      [type |-> "FormatInfo", encoding |-> 1, props |-> OneProp],
      [type |-> "Usec", bytes |-> <<0, 0, 0, 0, 0, 0, 3, 232>>] >>

\* Value::Timeval: the variant no typed write exists for.
Timeval == [type |-> "Timeval"]

\* The ToTagStruct impls of the primitive and domain types: the bytes a
\* typed write of v appends.  The protocol version is not used by any.
to_tag_struct(v, protocol_version) ==
    CASE v.type = "String" -> w_str(v.bytes)
      [] v.type = "NullString" -> w_null_str
      [] v.type = "U32" -> w_u32(v.n)
      [] v.type = "U8" -> w_u8(v.n)
      [] v.type = "U64" -> <<TAG_U64>> \o v.bytes
      [] v.type = "S64" -> <<TAG_S64>> \o v.bytes
      [] v.type = "Arbitrary" -> w_arbitrary(v.bytes)
      [] v.type = "Boolean" -> w_bool(v.b)
      [] v.type = "SampleSpec" -> w_sample_spec(v)
      [] v.type = "ChannelMap" -> w_channel_map(v.map)
      [] v.type = "CVolume" -> w_cvolume(v.volumes)
      [] v.type = "Volume" -> w_volume(v.raw)
      [] v.type = "PropList" -> w_proplist(v.props)
      [] v.type = "FormatInfo" -> w_format_info(v.encoding, v.props)
      [] v.type = "Usec" -> w_usec(v.bytes)

\* The arms of TagStructWriter::try_write that are unimplemented!().
UnimplementedValues ==
    {"SampleSpec", "Timeval", "ChannelMap", "CVolume", "PropList", "Volume", "FormatInfo"}

\* Every prefix of a byte string, the empty one and the whole included.
Prefixes(bytes) == { SubSeq(bytes, 1, n) : n \in 0..Len(bytes) }

\* n bytes of the same value.
Fill(n, byte) == [i \in 1..n |-> byte]

\* Bytes off the wire around the limits the reader checks: tags outside the
\* enumeration, the timeval tag, sample specifications, channel maps and
\* volumes at and beyond their bounds, a blob longer than the data, a format
\* of an unknown encoding, and three values in a row.
Crafted ==
    { <<90>>, <<0, TAG_U32>>,
      <<TAG_TIMEVAL, 0, 0, 0, 1, 0, 0, 0, 2>>,
      <<TAG_SAMPLE_SPEC, SAMPLE_FORMAT_LAST + 1, 2>> \o U32Bytes(U32FromNat(48000)),
      <<TAG_SAMPLE_SPEC, 5, 0>> \o U32Bytes(U32FromNat(48000)),
      <<TAG_SAMPLE_SPEC, 5, CHANNELS_MAX + 1>> \o U32Bytes(U32FromNat(48000)),
      <<TAG_SAMPLE_SPEC, 5, 2>> \o U32Bytes(U32FromNat(0)),
      <<TAG_SAMPLE_SPEC, 5, 2>> \o U32Bytes(U32FromNat((RATE_MAX * 101) \div 100 + 1)),
      <<TAG_SAMPLE_SPEC, 5, 2>> \o U32Bytes(U32Max),
      <<TAG_CHANNEL_MAP, CHANNELS_MAX>> \o Fill(CHANNELS_MAX, 1),
      <<TAG_CHANNEL_MAP, CHANNELS_MAX + 1>> \o Fill(CHANNELS_MAX + 1, 1),
      <<TAG_CHANNEL_MAP, 1, CHANNEL_POSITION_LAST + 1>>,
      <<TAG_CVOLUME, 0>>,
      <<TAG_CVOLUME, CHANNELS_MAX>> \o Fill(4 * CHANNELS_MAX, 1),
      <<TAG_CVOLUME, CHANNELS_MAX + 1>> \o Fill(4 * (CHANNELS_MAX + 1), 1),
      <<TAG_CVOLUME, 2, 255, 255, 255, 255, 128, 0, 0, 0>>,
      <<TAG_VOLUME, 128, 0, 0, 0>>, <<TAG_VOLUME, 255, 255, 255, 255>>,
      <<TAG_VOLUME, 127, 255, 255, 255>>,
      <<TAG_ARBITRARY, 255, 255, 255, 255, 1>>,
      <<TAG_FORMAT_INFO>> \o w_u8(FORMAT_ENCODING_LAST + 1) \o w_proplist(EmptyProps),
      w_u32(U32FromNat(5)) \o w_str(<<104>>) \o w_bool(TRUE) }

\* Keys of a property list on the wire: none, two of ASCII, one that is no
\* UTF-8 and one of UTF-8 beyond ASCII.
WireKeys == { <<>>, <<97>>, <<98>>, <<255>>, <<195, 169>> }

\* Entries of a property list on the wire: the key, the length declared in
\* the u32 and the blob that follows.
WireEntries ==
    { [key |-> k, declared |-> U32FromNat(d[1]), blob |-> d[2]] :
        k \in WireKeys,
        d \in { <<0, <<>>>>, <<2, <<1, 0>>>>, <<3, <<1, 0>>>>, <<1, <<7, 0>>>>,
                <<MAX_PROP_SIZE + 1, <<1, 0>>>> } }

EntrySeqs == UNION { [1..n -> WireEntries] : n \in 0..MaxEntries }

RECURSIVE EntryBytes(_)
\* The entries as a client writes them: key, length, blob.
EntryBytes(es) ==
    IF es = <<>> THEN <<>>
    ELSE w_str(Head(es).key) \o w_u32(Head(es).declared) \o w_arbitrary(Head(es).blob)
             \o EntryBytes(Tail(es))

\* A property list on the wire.
PropWire(es) == <<TAG_PROPLIST>> \o EntryBytes(es) \o w_null_str

\* One entry whose blob has the length declared, at the limit and beyond it.
BigEntry(n) == << [key |-> <<97>>, declared |-> U32FromNat(n), blob |-> Fill(n, 0)] >>

\* The property lists on the wire, by their entries.
PropLists == EntrySeqs \cup { BigEntry(MAX_PROP_SIZE), BigEntry(MAX_PROP_SIZE + 1) }

\* The data of the other readers: every prefix of an encoded value and of
\* the crafted strings.
Untrusted ==
    UNION { Prefixes(to_tag_struct(Values[i], PROTOCOL_VERSION)) : i \in 1..Len(Values) }
        \cup UNION { Prefixes(c) : c \in Crafted }

\* The sample specifications a sink may have: every format.
SinkSpecs == { SampleSpecOf(f, 2, 48000) : f \in 0..SAMPLE_FORMAT_LAST }

\* No argument of the last call.
NoArg == [v |-> NoValue, version |-> 0]

TagInit ==
    /\ ts \in { TsStart(r, TRUE) : r \in Untrusted }
                \cup { [TsStart(PropWire(es), TRUE) EXCEPT !.made = es] : es \in PropLists }
                \cup { TsStart(<<>>, FALSE) }
    /\ codec = CodecStart(<<>>, <<>>)
    /\ plist = PlStart(EmptyProps)
    /\ ids = IdxStart(IdxSet_new)
    /\ data = ServerData_new(CookieA)
    /\ handlers = <<>>
    /\ sent = <<>>
    /\ parsed = <<>>
    /\ good_auth = <<>>
    /\ handled = 0
    /\ Elsewhere
    /\ last = [op |-> "new", conn |-> 0, input |-> 0, parse |-> NoParse,
               before |-> [clients |-> data.clients, sinks |-> data.sinks,
                           handlers |-> <<>>, sent |-> <<>>]]

\* TagStructWriter::write / write_versioned: a typed write.
TsWrite(v, protocol_version) ==
    /\ ~ts.reader
    /\ ~ts.panicked
    /\ ts.last.op # "sinks"
    /\ Len(ts.vals) < MaxValues
    /\ ts' = [ts EXCEPT !.w = @ \o to_tag_struct(v, protocol_version),
                        !.vals = Append(@, v),
                        !.last = [op |-> "write", res |-> ReadEof, at |-> Len(ts.w),
                                  arg |-> NoArg]]
    /\ UNCHANGED <<vol, dir, locks, fds, server_vars, codec, ids, plist>>

\* TagStructWriter::write_value and Extend<Value>: try_write(v).unwrap().
TsWriteValue(v) ==
    /\ ~ts.reader
    /\ ~ts.panicked
    /\ ts.last.op # "sinks"
    /\ Len(ts.vals) < MaxValues
    /\ IF v.type \in UnimplementedValues
       THEN ts' = [ts EXCEPT !.panicked = TRUE,
                             !.last = [op |-> "write_value", res |-> ReadPanic,
                                       at |-> Len(ts.w), arg |-> [NoArg EXCEPT !.v = v]]]
       ELSE ts' = [ts EXCEPT !.w = @ \o to_tag_struct(v, 0),
                             !.vals = Append(@, v),
                             !.last = [op |-> "write_value", res |-> ReadEof,
                                       at |-> Len(ts.w), arg |-> NoArg]]
    /\ UNCHANGED <<vol, dir, locks, fds, server_vars, codec, ids, plist>>

\* GetSinkInfoListReply's to_tag_struct on a new writer, for a catalog whose
\* sink has the sample specification `spec`.
TsSinkList(spec, protocol_version) ==
    /\ ~ts.reader
    /\ ts.last.op = "new"
    /\ LET sink == [new_dummy(0) EXCEPT !.sample_spec = spec]
           reply(bytes) ==
               ts' = [ts EXCEPT !.w = bytes,
                                !.last = [op |-> "sinks", res |-> ReadEof, at |-> 0,
                                          arg |-> [v |-> spec,
                                                   version |-> protocol_version]]]
       IN  reply(GetSinkInfoListReply_to_tag_struct(
                     IdxSet_alloc(IdxSet_new, sink), protocol_version))
    /\ UNCHANGED <<vol, dir, locks, fds, server_vars, codec, ids, plist>>

\* TagStructWriter::to_reader: a reader on what has been written.
TsToReader ==
    /\ ~ts.reader
    /\ ~ts.panicked
    /\ ts.last.op \in {"write", "write_value", "sinks"}
    /\ ts' = [ts EXCEPT !.r = ts.w, !.reader = TRUE, !.pos = 0,
                        !.last = [op |-> "to_reader", res |-> ReadEof, at |-> 0,
                                  arg |-> ts.last.arg]]
    /\ UNCHANGED <<vol, dir, locks, fds, server_vars, codec, ids, plist>>

\* TagStructReader::read, called until it returns the end or an error.
TsRead ==
    /\ ts.reader
    /\ ~ts.panicked
    /\ ts.last.op = "read" => ts.last.res.res = "ok"
    /\ LET result(r) ==
               ts' = [ts EXCEPT !.pos = IF r.res = "ok" THEN r.pos ELSE @,
                                !.panicked = (r.res = "panic"),
                                !.last = [op |-> "read", res |-> r, at |-> ts.pos,
                                          arg |-> ts.last.arg]]
       IN  result(read(ts.r, ts.pos))
    /\ UNCHANGED <<vol, dir, locks, fds, server_vars, codec, ids, plist>>

TagNext ==
    \/ \E i \in 1..Len(Values), p \in Versions : TsWrite(Values[i], p)
    \/ \E i \in 1..Len(Values) : TsWriteValue(Values[i])
    \/ TsWriteValue(Timeval)
    \/ \E spec \in SinkSpecs, p \in Versions : TsSinkList(spec, p)
    \/ TsToReader
    \/ TsRead

TagSpec == TagInit /\ [][TagNext]_vars

(***************************************************************************)
(* One PropList under the calls of its API: set, insert, collecting from   *)
(* an iterator and extend.  The list at the start is new or was decoded.   *)
(***************************************************************************)
\* Prop: two of the well-known keys (Prop::to_unicode_cstring).
Props == { PROP_APPLICATION_NAME, PROP_DEVICE_DESCRIPTION }
\* UnicodeCString: strings of UTF-8 without a nul byte, the empty one and
\* one beyond ASCII included.
UnicodeCStrings == { <<>>, <<97>>, <<195, 169>> }
\* The values of the calls; the last is one byte longer than 64 KiB.
Blobs == { <<>>, <<1, 0>> }
LongBlob == Fill(MAX_PROP_SIZE + 1, 0)
\* The iterators of (Prop, String) to collect from, and the lists to
\* extend with.
PropPairs ==
    { <<>>, << <<PROP_APPLICATION_NAME, <<104, 105>>>> >>,
      << <<PROP_APPLICATION_NAME, <<104, 105>>>>, <<PROP_DEVICE_DESCRIPTION, <<>>>> >>,
      << <<PROP_APPLICATION_NAME, <<104, 105>>>>, <<PROP_APPLICATION_NAME, <<104>>>> >> }
DecodedLists == { EmptyProps, OneProp, NameProps[2] }

PropListInit ==
    /\ plist \in { PlStart(map) : map \in DecodedLists }
    /\ ts = TsStart(<<>>, FALSE)
    /\ codec = CodecStart(<<>>, <<>>)
    /\ ids = IdxStart(IdxSet_new)
    /\ data = ServerData_new(CookieA)
    /\ handlers = <<>>
    /\ sent = <<>>
    /\ parsed = <<>>
    /\ good_auth = <<>>
    /\ handled = 0
    /\ Elsewhere
    /\ last = [op |-> "new", conn |-> 0, input |-> 0, parse |-> NoParse,
               before |-> [clients |-> data.clients, sinks |-> data.sinks,
                           handlers |-> <<>>, sent |-> <<>>]]

\* PropList::set: the value of a well-known property, of any length.
PropList_set(prop, value) ==
    /\ plist' = [map |-> PropInsert(plist.map, prop, value), last |-> "set"]
    /\ UNCHANGED <<vol, dir, locks, fds, server_vars, codec, ids, ts>>

\* PropList::insert: any key, any value.
PropList_insert(key, value) ==
    /\ plist' = [map |-> PropInsert(plist.map, key, value), last |-> "insert"]
    /\ UNCHANGED <<vol, dir, locks, fds, server_vars, codec, ids, ts>>

RECURSIVE Collect(_, _)
\* BTreeMap's collect(): the pairs inserted in the order of the iterator.
Collect(map, pairs) ==
    IF pairs = <<>> THEN map
    ELSE Collect(PropInsert(map, Head(pairs)[1], Head(pairs)[2]), Tail(pairs))

\* impl FromIterator<(Prop, String)> for PropList: a new list.
PropList_from_iter(pairs) ==
    /\ plist' = [map |-> Collect(EmptyProps, pairs), last |-> "from_iter"]
    /\ UNCHANGED <<vol, dir, locks, fds, server_vars, codec, ids, ts>>

\* impl Extend for PropList: the entries of another list.
PropList_extend(more) ==
    /\ plist' = [map |-> PropExtend(plist.map, more), last |-> "extend"]
    /\ UNCHANGED <<vol, dir, locks, fds, server_vars, codec, ids, ts>>

PropListNext ==
    \/ \E key \in UnicodeCStrings, value \in Blobs : PropList_insert(key, value)
    \/ \E prop \in Props, value \in Blobs : PropList_set(prop, value)
    \/ \E pairs \in PropPairs : PropList_from_iter(pairs)
    \/ \E more \in DecodedLists : PropList_extend(more)
    \/ PropList_set(PROP_APPLICATION_NAME, LongBlob)

PropListSpec == PropListInit /\ [][PropListNext]_vars

(***************************************************************************)
(* Commands written with their ToTagStruct impl and parsed again.          *)
(***************************************************************************)
\* enum PaCommand: the opcode of GetCardInfoList, which only the encoder
\* names.
PA_COMMAND_GET_CARD_INFO_LIST == 89

\* The opcode the arm of a kind without parameters writes.
ListOpcode(kind) ==
    CASE kind = "GetSinkInfoList" -> PA_COMMAND_GET_SINK_INFO_LIST
      [] kind = "GetSourceInfoList" -> PA_COMMAND_GET_SOURCE_INFO_LIST
      [] kind = "GetClientInfoList" -> PA_COMMAND_GET_CLIENT_INFO_LIST
      [] kind = "GetCardInfoList" -> PA_COMMAND_GET_CARD_INFO_LIST
      [] kind = "GetModuleInfoList" -> PA_COMMAND_GET_MODULE_INFO_LIST
      [] kind = "GetSinkInputInfoList" -> PA_COMMAND_GET_SINK_INPUT_INFO_LIST
      [] kind = "GetSourceOutputInfoList" -> PA_COMMAND_GET_SOURCE_OUTPUT_INFO_LIST
      [] kind = "GetSampleInfoList" -> PA_COMMAND_GET_SAMPLE_INFO_LIST

RECURSIVE checked_iter(_, _, _)
\* TagStructReader::checked_iter: every value up to the end of the data,
\* or the first error (or panic) of read().
checked_iter(raw, pos, vals) ==
    LET next(r) ==
            IF r.res = "eof" THEN ReadOk(vals, pos)
            ELSE IF r.res # "ok" THEN r
            ELSE checked_iter(raw, r.pos, Append(vals, r.val))
    IN  next(read(raw, pos))

RECURSIVE extend(_)
\* Extend<Value> for TagStructWriter: write_value for each value; the
\* bytes written, or the panic of try_write's unimplemented arms.
extend(vals) ==
    LET rest(r) ==
            IF r.res # "ok" THEN r
            ELSE [res |-> "ok", bytes |-> to_tag_struct(Head(vals), 0) \o r.bytes]
    IN  IF vals = <<>> THEN [res |-> "ok", bytes |-> <<>>]
        ELSE IF Head(vals).type \in UnimplementedValues
        THEN [res |-> "panic", bytes |-> <<>>]
        ELSE rest(extend(Tail(vals)))

\* impl ToTagStruct for Command: what the call returns ("ok", "err" or the
\* panic) and the bytes it wrote.
Command_ToTagStruct(cmd, protocol_version) ==
    LET written(opcode, params) ==
            [res |-> params.res,
             bytes |-> Command_to_tag_struct(opcode, cmd.tag, params.bytes)]
        ok(bytes) == [res |-> "ok", bytes |-> bytes]
        reply(values) ==
            IF values.res # "ok" THEN [res |-> values.res, bytes |-> <<>>]
            ELSE extend(values.val)
    IN  CASE cmd.kind = "Auth" ->
                 written(PA_COMMAND_AUTH,
                         ok(Auth_to_tag_struct(cmd.params.version, cmd.params.supports_shm,
                                               cmd.params.supports_memfd,
                                               cmd.params.cookie)))
          [] cmd.kind = "SetClientName" ->
                 written(PA_COMMAND_SET_CLIENT_NAME, ok(w_proplist(cmd.params.props)))
          [] cmd.kind = "CreatePlaybackStream" ->
                 \* CreatePlaybackStream's to_tag_struct is unimplemented!().
                 written(PA_COMMAND_CREATE_PLAYBACK_STREAM,
                         [res |-> "panic", bytes |-> <<>>])
          [] cmd.kind = "RegisterMemfdShmid" ->
                 written(PA_COMMAND_REGISTER_MEMFD_SHMID, ok(w_u32(cmd.params.shmid)))
          [] cmd.kind = "Reply" ->
                 written(PA_COMMAND_REPLY, reply(checked_iter(cmd.params.params, 0, <<>>)))
          [] cmd.kind = "Error" ->
                 written(PA_COMMAND_ERROR, ok(w_u32(U32FromNat(cmd.params.code))))
          [] OTHER -> written(ListOpcode(cmd.kind), ok(<<>>))

\* A command of a kind with a tag and parameters.
CommandOf(tag, kind, params) == [tag |-> tag, kind |-> kind, params |-> params]

\* The kinds without parameters.
ListKindNames ==
    << "GetSinkInfoList", "GetSourceInfoList", "GetClientInfoList", "GetCardInfoList",
       "GetModuleInfoList", "GetSinkInputInfoList", "GetSourceOutputInfoList",
       "GetSampleInfoList" >>

\* The payloads of the REPLY commands: none, one value or two values of
\* each variant, and a timeval.
ReplyPayloads ==
    <<<<>>>>
        \o [i \in 1..Len(Values) |-> to_tag_struct(Values[i], 0)]
        \o [i \in 1..Len(Values) |-> w_u32(U32Max) \o to_tag_struct(Values[i], 0)]
        \o << <<TAG_TIMEVAL, 0, 0, 0, 0, 0, 0, 0, 0>> >>

\* The commands written: of every kind the encoder has an arm for.
Commands ==
    << CommandOf(TagA, "Auth", [version |-> 13, supports_shm |-> FALSE,
                                 supports_memfd |-> FALSE, cookie |-> CookieA]),
       CommandOf(TagB, "Auth", [version |-> PROTOCOL_VERSION, supports_shm |-> TRUE,
                                 supports_memfd |-> TRUE, cookie |-> CookieB]),
       CommandOf(TagA, "Auth", [version |-> 12, supports_shm |-> TRUE,
                                 supports_memfd |-> FALSE, cookie |-> <<>>]),
       CommandOf(U32Max, "Auth", [version |-> 65535, supports_shm |-> FALSE,
                                   supports_memfd |-> TRUE, cookie |-> <<1, 2>>]),
       CommandOf(TagA, "SetClientName", [props |-> EmptyProps]),
       CommandOf(TagB, "SetClientName", [props |-> NameProps[1]]),
       CommandOf(TagA, "SetClientName", [props |-> NameProps[2]]),
       CommandOf(TagA, "RegisterMemfdShmid", [shmid |-> U32FromNat(7)]),
       CommandOf(TagB, "RegisterMemfdShmid", [shmid |-> U32Max]),
       CommandOf(TagA, "Error", [code |-> Access]),
       CommandOf(TagB, "Error", [code |-> NotImplemented]),
       from_tagstruct(Inputs[17].payload, PROTOCOL_MIN_VERSION).cmd,
       from_tagstruct(Inputs[18].payload, PROTOCOL_VERSION).cmd >>
        \o [i \in 1..Len(ListKindNames) |-> CommandOf(TagA, ListKindNames[i], NoParams)]
        \o [i \in 1..Len(ReplyPayloads) |->
               CommandOf(TagB, "Reply", [params |-> ReplyPayloads[i]])]

CommandInit ==
    /\ ts = TsStart(<<>>, FALSE)
    /\ plist = PlStart(EmptyProps)
    /\ codec = CodecStart(<<>>, <<>>)
    /\ ids = IdxStart(IdxSet_new)
    /\ data = ServerData_new(CookieA)
    /\ handlers = <<>>
    /\ sent = <<>>
    /\ parsed = <<>>
    /\ good_auth = <<>>
    /\ handled = 0
    /\ Elsewhere
    /\ last = [op |-> "new", conn |-> 0, input |-> 0, parse |-> NoParse,
               before |-> [clients |-> data.clients, sinks |-> data.sinks,
                           handlers |-> <<>>, sent |-> <<>>]]

\* Command's to_tag_struct on a new writer.
CmdToTagStruct(cmd, protocol_version) ==
    /\ ts.last.op = "new"
    /\ LET written(r) ==
               ts' = [ts EXCEPT !.w = r.bytes,
                                !.panicked = (r.res = "panic"),
                                !.last = [op |-> "to_tag_struct",
                                          res |-> [ParseErr EXCEPT !.res = r.res],
                                          at |-> 0,
                                          arg |-> [v |-> cmd,
                                                   version |-> protocol_version]]]
       IN  written(Command_ToTagStruct(cmd, protocol_version))
    /\ UNCHANGED <<vol, dir, locks, fds, server_vars, codec, ids, plist>>

\* Command::from_tagstruct on the bytes written, at the version they were
\* written at.
CmdFromTagstruct ==
    /\ ts.last.op = "to_tag_struct"
    /\ ts.last.res.res = "ok"
    /\ LET parsed_as(r) ==
               ts' = [ts EXCEPT !.panicked = (r.res = "panic"),
                                !.last = [op |-> "from_tagstruct", res |-> r, at |-> 0,
                                          arg |-> ts.last.arg]]
       IN  parsed_as(from_tagstruct(ts.w, ts.last.arg.version))
    /\ UNCHANGED <<vol, dir, locks, fds, server_vars, codec, ids, plist>>

CommandNext ==
    \/ \E i \in 1..Len(Commands), p \in Versions : CmdToTagStruct(Commands[i], p)
    \/ CmdFromTagstruct

CommandSpec == CommandInit /\ [][CommandNext]_vars

(***************************************************************************)
(* Volume and its conversions.  An f32 is [kind, neg, m, e]: "fin" is the  *)
(* number m * 2^e with m below 2^24 (odd, or 0 with e = 0), "inf" an       *)
(* infinity, "nan" not a number, and "some" a finite number other than 0   *)
(* whose digits the model does not compute (a logarithm).                  *)
(***************************************************************************)
F32(neg, m, e) == [kind |-> "fin", neg |-> neg, m |-> m, e |-> e]
F32One == F32(FALSE, 1, 0)
F32Inf(neg) == [kind |-> "inf", neg |-> neg, m |-> 0, e |-> 0]
F32NaN == [kind |-> "nan", neg |-> FALSE, m |-> 0, e |-> 0]
F32Some(neg) == [kind |-> "some", neg |-> neg, m |-> 0, e |-> 0]

\* The number of bits of n (0 for 0), for n below 2^31.
BitLen(n) ==
    CHOOSE k \in 0..31 :
        IF k = 0 THEN n = 0 ELSE 2^(k - 1) <= n /\ (k = 31 \/ n < 2^k)

\* m * 2^e with the trailing zero bits of m moved into the exponent.
F32Norm(neg, m, e) ==
    LET t == CHOOSE z \in 0..24 : m % 2^z = 0 /\ (m \div 2^z) % 2 = 1
    IN  IF m = 0 THEN F32(neg, 0, 0) ELSE F32(neg, m \div 2^t, e + t)

\* (H * 2^24 + L) * 2^e rounded to the 24 bits of an f32, ties to even.
F32Round(neg, H, L, e) ==
    LET k == BitLen(H)
        q == H * 2^(24 - k) + L \div 2^k
        r == L % 2^k
        half == IF k = 0 THEN 0 ELSE 2^(k - 1)
        up == k > 0 /\ (r > half \/ (r = half /\ q % 2 = 1))
    IN  F32Norm(neg, IF up THEN q + 1 ELSE q, e + k)

\* `n as f32` for a u32 below 2^31.
F32FromNat(n) == F32Round(FALSE, n \div 2^24, n % 2^24, 0)

\* a * b for finite a and b, in 12-bit limbs.
F32Mul(a, b) ==
    LET a1 == a.m \div 4096
        a0 == a.m % 4096
        b1 == b.m \div 4096
        b0 == b.m % 4096
        mid == a1 * b0 + a0 * b1
        low == (mid % 4096) * 4096 + a0 * b0
        H == a1 * b1 + mid \div 4096 + low \div 2^24
    IN  F32Round(a.neg # b.neg, H, low % 2^24, a.e + b.e)

\* a / 2^k for finite a: exact.
F32Div2(a, k) == F32Norm(a.neg, a.m, a.e - k)

\* f32::log10, by its special values: 0 for 1, minus infinity for 0, NaN
\* below 0, and a number below or above 0 elsewhere.
F32Log10(x) ==
    CASE x.kind = "nan" -> F32NaN
      [] x.kind = "inf" -> IF x.neg THEN F32NaN ELSE F32Inf(FALSE)
      [] x.kind = "fin" /\ x.m = 0 -> F32Inf(TRUE)
      [] x.kind = "fin" /\ x.neg -> F32NaN
      [] x = F32One -> F32Zero
      [] x.kind = "fin" -> F32Some(x.e < 0 /\ BitLen(x.m) + x.e <= 0)
      [] OTHER -> IF x.neg THEN F32NaN ELSE F32Some(FALSE)

\* x * 20.0, by kind.
F32Times20(x) ==
    IF x.kind = "fin" THEN F32Mul(x, F32(FALSE, 5, 2)) ELSE x

\* The raw values of the constants, as numbers.
NORM == U32ToNat(VOLUME_NORM)
VOLUME_MUTED == 0
MAX == U32ToNat(VOLUME_MAX)

\* Volume::to_linear: (raw / 65536)^3 in f32.
to_linear(raw) ==
    LET cube(f) == F32Mul(F32Mul(f, f), f)
    IN  cube(F32Div2(F32FromNat(raw), 16))

\* Volume::to_db.
to_db(raw) == F32Times20(F32Log10(to_linear(raw)))

\* floor(cbrt(n)) for n below 2^27.
ICbrt(n) == CHOOSE c \in 0..512 : c * c * c <= n /\ n < (c + 1) * (c + 1) * (c + 1)

\* `linear.cbrt() * 65536.0`, as [kind, neg, over, n]: not a number, or a
\* number with its sign, the whole part n of its size, and `over` when the
\* size is 2^31 or more.  Exact when `linear` is 0, not finite, or the cube
\* of a number c * 2^q with c below 2^9; for any other `linear` n is the
\* size for the next cube towards 0.  cbrt is not exact to the last place:
\* `below` says its result is just under the root.
Scaled(linear, below) ==
    LET r == linear.e % 3
        q == (linear.e - r) \div 3
        c == ICbrt(linear.m * 2^r)
        s == q + 16
        over == s >= 31 \/ (s >= 22 /\ c >= 2^(31 - s))
        n == IF over \/ s < -9 THEN 0
             ELSE IF s >= 0 THEN c * 2^s ELSE c \div 2^(-s)
    IN  CASE linear.kind = "nan" ->
                [kind |-> "nan", neg |-> FALSE, over |-> FALSE, n |-> 0]
          [] linear.kind = "inf" ->
                [kind |-> "num", neg |-> linear.neg, over |-> TRUE, n |-> 0]
          [] OTHER ->
                [kind |-> "num", neg |-> linear.neg, over |-> over,
                 n |-> IF below /\ n > 0 THEN n - 1 ELSE n]

\* `x as u32` with the cast of a build that wraps a number below 0 around:
\* -1.0 and below come out above VOLUME_MAX.
as_u32_wrapping(x) ==
    IF x.kind = "nan" THEN [over |-> FALSE, n |-> 0]
    ELSE [over |-> x.over \/ (x.neg /\ x.n > 0), n |-> IF x.neg THEN 0 ELSE x.n]

\* `x as u32`: the cast saturates, NaN is 0 and a number below 0 is 0.  The
\* result is [over, n]: the number n, or with `over` a number above
\* VOLUME_MAX.
as_u32(x) ==
    IF x.kind = "nan" \/ x.neg THEN [over |-> FALSE, n |-> 0]
    ELSE [over |-> x.over, n |-> x.n]

\* Volume::from_linear.
from_linear(linear, below) ==
    LET clamp(raw) ==
            CASE ~raw.over /\ raw.n < VOLUME_MUTED -> VOLUME_MUTED
              [] raw.over \/ raw.n > MAX -> MAX
              [] OTHER -> raw.n
    IN  clamp(as_u32(Scaled(linear, below)))

\* The raw volumes converted: the constants, their neighbours, volumes that
\* an f32 holds exactly and volumes it has to round.
Raws ==
    {0, 1, 2, 3, 255, 32768, 65535, 65536, 65537, 98304, 131072, 196608,
     16777215, 16777216, 16777217, 16777219, 33554431, 12345678,
     1073741824, 2147483646, 2147483647}

\* The arguments of from_linear: numbers below 0 (-43.0 of the test among
\* them), both zeros, cubes, numbers whose root is above VOLUME_MAX, the
\* infinities and NaN.
Linears ==
    {F32(TRUE, 43, 0), F32(TRUE, 1, 0), F32(TRUE, 1, -100), F32(TRUE, 1, 100),
     F32(TRUE, 0, 0), F32Zero, F32One, F32(FALSE, 1, 3), F32(FALSE, 1, -3),
     F32(FALSE, 27, 0), F32(FALSE, 27, -6), F32(FALSE, 125, -9),
     F32(FALSE, 1, -48), F32(FALSE, 1, -51), F32(FALSE, 1, 42),
     F32(FALSE, 1, 45), F32(FALSE, 1, 90), F32(FALSE, 343, 39),
     F32Inf(FALSE), F32Inf(TRUE), F32NaN}

\* No server, codec, set, list or tag structure is at work.
Idle ==
    /\ ts = TsStart(<<>>, FALSE)
    /\ plist = PlStart(EmptyProps)
    /\ codec = CodecStart(<<>>, <<>>)
    /\ ids = IdxStart(IdxSet_new)
    /\ data = ServerData_new(CookieA)
    /\ handlers = <<>>
    /\ sent = <<>>
    /\ parsed = <<>>
    /\ good_auth = <<>>
    /\ handled = 0
    /\ last = [op |-> "new", conn |-> 0, input |-> 0, parse |-> NoParse,
               before |-> [clients |-> data.clients, sinks |-> data.sinks,
                           handlers |-> <<>>, sent |-> <<>>]]

VolumeInit ==
    /\ Idle
    /\ dir = DirStart /\ locks = LocksStart /\ fds = FdsStart
    /\ vol \in {[VolStart EXCEPT !.raw = r] : r \in Raws}

\* v.to_linear() on the volume held.
VolToLinear ==
    /\ vol' = [vol EXCEPT !.op = "to_linear", !.lin = to_linear(vol.raw)]
    /\ UNCHANGED <<dir, locks, fds, server_vars, codec, ids, plist, ts>>

\* v.to_db() on the volume held.
VolToDb ==
    /\ vol' = [vol EXCEPT !.op = "to_db", !.db = to_db(vol.raw)]
    /\ UNCHANGED <<dir, locks, fds, server_vars, codec, ids, plist, ts>>

\* Volume::from_linear(linear): the volume held is the one it returns.
VolFromLinear(linear, below) ==
    /\ vol' = [vol EXCEPT !.op = "from_linear", !.arg = linear,
                          !.raw = from_linear(linear, below)]
    /\ UNCHANGED <<dir, locks, fds, server_vars, codec, ids, plist, ts>>

VolumeNext ==
    \/ VolToLinear
    \/ VolToDb
    \/ \E l \in Linears, below \in BOOLEAN : VolFromLinear(l, below)

VolumeSpec == VolumeInit /\ [][VolumeNext]_vars

(***************************************************************************)
(* Server::new_unix and AuthCookie::create, step by step, for servers      *)
(* started on one runtime directory.  dir holds the two files and the      *)
(* servers:                                                                *)
(*   sock      the socket file: present or not, and the server whose bind  *)
(*             made it (0: a server that is gone)                          *)
(*   listening the servers whose UnixListener is open                      *)
(*   path      the inode the cookie path names, or -1                      *)
(*   inodes    mode and content of the cookie inodes: 0 is the file found  *)
(*             at the start, p the one server p created                    *)
(*   srv       per server: the place in new_unix (pc), the error it        *)
(*             returned, the cookie file as it was when new_unix was       *)
(*             called (found), the inode opened, the cookie it holds       *)
(***************************************************************************)
MaxServers == 2
Servers == 1..MaxServers

\* 0o600, the ACCESS_MODE of AuthCookie::create.
ACCESS_MODE == 384

\* The umasks a server is started with: 0o022 and 0o277.
Umasks == {18, 191}

\* The owner's read and write bits of `mode` that `umask` lets through.
Masked(mode, umask) ==
    LET bit(b) == IF (mode \div b) % 2 = 1 /\ (umask \div b) % 2 = 0 THEN b ELSE 0
    IN  bit(256) + bit(128)

NoFile == [mode |-> 0, content |-> <<>>]
NewServer == [pc |-> "new_unix", err |-> "", found |-> <<>>, ino |-> -1,
              cookie |-> <<>>]

\* The directory a socket file and a cookie file were left in, or not.
DirOf(stale, cookie) ==
    [sock |-> [present |-> stale, owner |-> 0],
     listening |-> {},
     path |-> IF cookie = NoFile THEN -1 ELSE 0,
     inodes |-> [i \in 0..MaxServers |-> IF i = 0 THEN cookie ELSE NoFile],
     srv |-> [p \in Servers |-> NewServer]]

\* The cookie file at the cookie path, NoFile when there is none.
CookieFile(d) == IF d.path = -1 THEN NoFile ELSE d.inodes[d.path]

\* new_unix returns Err(e); the listener, if bound already, is dropped.
Fails(d, p, e) ==
    [d EXCEPT !.srv[p].pc = "failed", !.srv[p].err = e,
              !.listening = @ \ {p}]

\* `if socket_file.exists()`.
socket_exists(d, p) ==
    [d EXCEPT !.srv[p].pc = IF d.sock.present THEN "connect" ELSE "bind",
              !.srv[p].found = CookieFile(d).content]

\* `match UnixStream::connect(&socket_file).wait()`.
socket_connect(d, p) ==
    CASE ~d.sock.present -> Fails(d, p, "NotFound")
      [] d.sock.owner \in d.listening -> Fails(d, p, "AlreadyExists")
      [] OTHER -> [d EXCEPT !.srv[p].pc = "remove_file"]

\* `fs::remove_file(&socket_file)`; an error is logged only.
socket_remove(d, p) ==
    [d EXCEPT !.srv[p].pc = "bind", !.sock.present = FALSE]

\* `UnixListener::bind(socket_file)?`.
socket_bind(d, p) ==
    IF d.sock.present THEN Fails(d, p, "AddrInUse")
    ELSE [d EXCEPT !.srv[p].pc = "create", !.listening = @ \cup {p},
                   !.sock = [present |-> TRUE, owner |-> p]]

\* AuthCookie::create: `fs::remove_file(&file).ok()`.
cookie_remove(d, p) == [d EXCEPT !.srv[p].pc = "open", !.path = -1]

\* AuthCookie::create: the open with mode(0o600), write, create, and the
\* check of the mode of the file opened.
cookie_open(d, p, umask) ==
    LET made == d.path = -1
        ino == IF made THEN p ELSE d.path
        mode == IF made THEN Masked(ACCESS_MODE, umask) ELSE d.inodes[ino].mode
        opened == [d EXCEPT !.path = ino, !.inodes[ino].mode = mode,
                            !.srv[p].ino = ino]
    IN  IF mode # ACCESS_MODE THEN Fails(opened, p, "PermissionDenied")
        ELSE [opened EXCEPT !.srv[p].pc = "write_all"]

\* AuthCookie::create: thread_rng().fill(&mut data), write_all, flush, and
\* ServerData::new with the cookie; `random` is what the generator gave.
cookie_write(d, p, random) ==
    [d EXCEPT !.srv[p].pc = "running", !.srv[p].cookie = random,
              !.inodes[d.srv[p].ino].content =
                  random \o SubSeq(@, COOKIE_LENGTH + 1, Len(@))]

\* The server process ends: its listener is closed, the files stay.
server_exit(d, p) ==
    [d EXCEPT !.srv[p].pc = "exited", !.listening = @ \ {p}]

\* The cookie files found at the start: none, a cookie of mode 0o600, one of
\* mode 0o644, and a file cut short.
CookiesFound ==
    {NoFile, [mode |-> 384, content |-> CookieA],
     [mode |-> 420, content |-> CookieA],
     [mode |-> 384, content |-> SubSeq(CookieA, 1, 3)]}

StartInit ==
    /\ Idle
    /\ vol = VolStart /\ locks = LocksStart /\ fds = FdsStart
    /\ dir \in {DirOf(stale, cookie) : stale \in BOOLEAN, cookie \in CookiesFound}

\* One step of server p, by its place in new_unix.
NewUnix(p, pc, next) ==
    /\ dir.srv[p].pc = pc
    /\ dir' = next
    /\ UNCHANGED <<vol, locks, fds, server_vars, codec, ids, plist, ts>>

StartNext ==
    \E p \in Servers :
        \/ NewUnix(p, "new_unix", socket_exists(dir, p))
        \/ NewUnix(p, "connect", socket_connect(dir, p))
        \/ NewUnix(p, "remove_file", socket_remove(dir, p))
        \/ NewUnix(p, "bind", socket_bind(dir, p))
        \/ NewUnix(p, "create", cookie_remove(dir, p))
        \/ \E umask \in Umasks : NewUnix(p, "open", cookie_open(dir, p, umask))
        \/ \E random \in {CookieA, CookieB} :
              NewUnix(p, "write_all", cookie_write(dir, p, random))
        \/ NewUnix(p, "running", server_exit(dir, p))

StartSpec == StartInit /\ [][StartNext]_vars

(***************************************************************************)
(* The catalog locks.  ServerData keeps the clients and the sinks behind   *)
(* one RwLock each; a handler takes them through clients(), clients_mut()  *)
(* and sinks().  What a handler does with the locks is a sequence of       *)
(* instructions [op, lock]: "read" and "write" take the guard (the thread  *)
(* blocks until the lock admits it), "unlock" drops the guard taken last.  *)
(* locks maps each handler to                                              *)
(*   at    "idle" (not connected), "sync" (running new, handle_packet or   *)
(*         drop on a worker thread), "await" (suspended on the read of     *)
(*         the socket), "send" (suspended on the write of the reply),      *)
(*         "done"                                                          *)
(*   prog  the instructions the running call has left                      *)
(*   then  where the handler goes when the call returns                    *)
(*   held  the guards the handler holds, the newest last                   *)
(*   got   the packets the handler has had from its stream                 *)
(***************************************************************************)
MaxHandlers == 2
MaxRounds == 2
Handlers == 1..MaxHandlers

Take(op, lock) == [op |-> op, lock |-> lock]
Unlock == [op |-> "unlock", lock |-> ""]

\* ServerData::clients() or sinks() as a temporary of one expression.
ReadSection(lock) == <<Take("read", lock), Unlock>>

\* ServerData::clients_mut() as a temporary of one expression.
WriteSection(lock) == <<Take("write", lock), Unlock>>

\* The packets by what the handler does with them.
PacketKinds ==
    {"Malformed", "Denied", "AuthOld", "AuthBadCookie", "AuthOk",
     "SetClientName", "CreatePlaybackStream", "GetSinkInfoList",
     "GetClientInfoList", "GetModuleInfoList", "Unimplemented", "Reply"}

\* A variant of handle_control in which the GetClientInfoList arm hands the
\* read guard on with the reply instead of dropping it.
handle_control_locks_keeping(kind) ==
    ReadSection("clients") \o
    CASE kind = "AuthBadCookie" -> WriteSection("clients")
      [] kind = "AuthOk" -> WriteSection("clients") \o WriteSection("clients")
      [] kind = "SetClientName" -> WriteSection("clients")
      [] kind = "GetSinkInfoList" -> ReadSection("sinks")
      [] kind = "GetClientInfoList" -> <<Take("read", "clients")>>
      [] OTHER -> <<>>

\* The locks of ClientHandler::handle_control: with_client for the flag and
\* the version, then the arm of the command.
handle_control_locks(kind) ==
    ReadSection("clients") \o
    CASE kind = "AuthBadCookie" -> WriteSection("clients")
      [] kind = "AuthOk" -> WriteSection("clients") \o WriteSection("clients")
      [] kind = "SetClientName" -> WriteSection("clients")
      [] kind = "GetSinkInfoList" -> ReadSection("sinks")
      [] kind = "GetClientInfoList" -> ReadSection("clients")
      [] OTHER -> <<>>

\* The locks of ClientHandler::handle_packet: with_client for the version,
\* the parser, then handle_control.
handle_packet_locks(kind) ==
    ReadSection("clients") \o
    IF kind = "Malformed" THEN <<>> ELSE handle_control_locks(kind)

\* Where handle_packet ends: with a packet to send, or, for an Err or a
\* panic, with the task over and the handler dropped.
AfterPacket(kind) ==
    IF kind \in {"Malformed", "Unimplemented"} THEN "drop" ELSE "send"

NewHandler == [at |-> "idle", prog |-> <<>>, then |-> "", held |-> <<>>,
               got |-> 0]

\* The packets all handlers have had; MaxRounds bounds them.
RECURSIVE Rounds(_, _)
Rounds(l, h) == IF h = 0 THEN 0 ELSE l[h].got + Rounds(l, h - 1)

\* The guards on `lock` held by handlers other than h, and by h.
HeldByOthers(l, h, lock) ==
    {g \in UNION {{l[o].held[i] : i \in 1..Len(l[o].held)} : o \in Handlers \ {h}} :
        g.lock = lock}
HeldBySelf(l, h, lock) ==
    {g \in {l[h].held[i] : i \in 1..Len(l[h].held)} : g.lock = lock}

\* RwLock: read() returns while no writer holds the lock, write() while
\* nobody holds it.
Admits(l, h, ins) ==
    CASE ins.op = "read" ->
            \A g \in HeldByOthers(l, h, ins.lock) \cup HeldBySelf(l, h, ins.lock) :
                g.op = "read"
      [] ins.op = "write" ->
            HeldByOthers(l, h, ins.lock) \cup HeldBySelf(l, h, ins.lock) = {}
      [] OTHER -> TRUE

\* Handler h is blocked in read() or write().
Waiting(h) ==
    /\ locks[h].at = "sync"
    /\ locks[h].prog # <<>>
    /\ ~Admits(locks, h, Head(locks[h].prog))

LockInit ==
    /\ Idle
    /\ vol = VolStart /\ dir = DirStart /\ fds = FdsStart
    /\ locks = [h \in Handlers |-> NewHandler]

\* process: ClientHandler::new runs for an accepted connection.
LockAccept(h) ==
    /\ locks[h].at = "idle"
    /\ locks' = [locks EXCEPT ![h].at = "sync", ![h].then = "await",
                              ![h].prog = WriteSection("clients")]
    /\ UNCHANGED <<vol, dir, fds, server_vars, codec, ids, plist, ts>>

\* The stream yields a packet: handle_packet runs.
LockReceive(h, kind) ==
    /\ locks[h].at = "await"
    /\ Rounds(locks, MaxHandlers) < MaxRounds
    /\ locks' = [locks EXCEPT ![h].at = "sync", ![h].then = AfterPacket(kind),
                              ![h].prog = handle_packet_locks(kind),
                              ![h].got = @ + 1]
    /\ UNCHANGED <<vol, dir, fds, server_vars, codec, ids, plist, ts>>

\* The stream ends: the task is over and the handler is dropped.
LockHangup(h) ==
    /\ locks[h].at = "await"
    /\ locks' = [locks EXCEPT ![h].at = "sync", ![h].then = "done",
                              ![h].prog = WriteSection("clients")]
    /\ UNCHANGED <<vol, dir, fds, server_vars, codec, ids, plist, ts>>

\* The next instruction of the running call.
LockExec(h) ==
    /\ locks[h].at = "sync"
    /\ locks[h].prog # <<>>
    /\ Admits(locks, h, Head(locks[h].prog))
    /\ LET ins == Head(locks[h].prog)
           held == locks[h].held
       IN  locks' = [locks EXCEPT
               ![h].prog = Tail(@),
               ![h].held = IF ins.op = "unlock"
                           THEN SubSeq(held, 1, Len(held) - 1)
                           ELSE Append(held, ins)]
    /\ UNCHANGED <<vol, dir, fds, server_vars, codec, ids, plist, ts>>

\* The running call returns: to the stream, to the sink, or, when the task
\* is over, into Drop for ClientHandler.
LockReturn(h) ==
    /\ locks[h].at = "sync"
    /\ locks[h].prog = <<>>
    /\ locks' = IF locks[h].then = "drop"
                THEN [locks EXCEPT ![h].then = "done",
                                   ![h].prog = WriteSection("clients")]
                ELSE [locks EXCEPT ![h].at = locks[h].then, ![h].then = ""]
    /\ UNCHANGED <<vol, dir, fds, server_vars, codec, ids, plist, ts>>

\* The reply was written to the socket.
LockSent(h) ==
    /\ locks[h].at = "send"
    /\ locks' = [locks EXCEPT ![h].at = "await"]
    /\ UNCHANGED <<vol, dir, fds, server_vars, codec, ids, plist, ts>>

LockNext ==
    \E h \in Handlers :
        \/ LockAccept(h)
        \/ \E kind \in PacketKinds : LockReceive(h, kind)
        \/ LockHangup(h)
        \/ LockExec(h)
        \/ LockReturn(h)
        \/ LockSent(h)

\* A worker thread that can run does run; when a client sends, reads or
\* hangs up is up to the client.
LockSpec ==
    /\ LockInit
    /\ [][LockNext]_vars
    /\ \A h \in Handlers : WF_vars(LockExec(h) \/ LockReturn(h))

(***************************************************************************)
(* The trace proxy: forward() of pa-trace, one direction.  fds holds       *)
(*   pc       the place in the loop: "recvmsg", "print_data", "sendmsg",   *)
(*            "close", or, when the function is left, "returned" (an Err   *)
(*            through `?`) or "panicked"                                   *)
(*   version  protocol_version of the closure print_data                   *)
(*   bytes    the data of the message received                             *)
(*   cmsgs    the descriptors of its ScmRights message; the descriptors    *)
(*            received are numbered 1, 2, .. in the order received         *)
(*   got      how many descriptors were received                           *)
(*   passed   history: the descriptors handed to sendmsg that sent them    *)
(*   closes   history: the calls of close() per descriptor                 *)
(*   count    the messages received                                        *)
(***************************************************************************)
MaxMessages == 2

\* The descriptors one recvmsg yields at most: CmsgSpace<[RawFd; 2]>.
CMSG_FDS == 2

\* What the reader's peer sends: an Auth of version 32, a GetSinkInfoList,
\* an ERROR, half a descriptor, a memory block on channel 0, and a command
\* packet whose payload is no tag structure.
ProxyMessages ==
    << encode(Packet_new_command(Command_to_tag_struct(PA_COMMAND_AUTH, TagA,
                  Auth_to_tag_struct(32, TRUE, TRUE, CookieA))), <<>>),
       encode(Packet_new_command(Command_to_tag_struct(
                  PA_COMMAND_GET_SINK_INFO_LIST, TagB, <<>>)), <<>>),
       encode(Packet_new_command(Command_to_tag_struct(PA_COMMAND_ERROR, TagA,
                  w_u32(U32FromNat(Access)))), <<>>),
       SubSeq(encode(Packet_new_command(<<>>), <<>>), 1, 10),
       encode([Packet_new_command(<<1, 2, 3, 4>>) EXCEPT !.desc.channel = 0], <<>>),
       encode(Packet_new_command(<<0>>), <<>>) >>

\* The closure print_data of forward: Packet::decode, Message::from_packet
\* and Command::from_tagstruct; an Auth sets the version.
print_data(bytes, protocol_version) ==
    LET done(res, version) == [res |-> res, version |-> version]
        command(parse) ==
            IF parse.res # "ok" THEN done(parse.res, protocol_version)
            ELSE IF parse.cmd.kind = "Auth"
            THEN done("ok", parse.cmd.params.version)
            ELSE done("ok", protocol_version)
        message(msg) ==
            IF msg.res = "panic" THEN done("panic", protocol_version)
            ELSE command(from_tagstruct(msg.tagstruct, protocol_version))
        packet(r) ==
            IF r.res # "some" THEN done("err", protocol_version)
            ELSE message(from_packet([channel |-> r.item.desc.channel,
                                      flags |-> r.item.desc.flags,
                                      payload |-> r.item.payload]))
    IN  packet(decode(PacketCodec_new.desc, bytes))

ProxyStart ==
    [pc |-> "recvmsg", version |-> PROTOCOL_MIN_VERSION, bytes |-> <<>>,
     cmsgs |-> <<>>, got |-> 0, passed |-> {},
     closes |-> [fd \in 1..(CMSG_FDS * MaxMessages) |-> 0], count |-> 0]

ProxyInit ==
    /\ Idle
    /\ vol = VolStart /\ dir = DirStart /\ locks = LocksStart
    /\ fds = ProxyStart

\* recvmsg returns a message of `bytes` with k descriptors.
Recvmsg(bytes, k) ==
    /\ fds.pc = "recvmsg"
    /\ fds.count < MaxMessages
    /\ fds' = [fds EXCEPT !.pc = "print_data", !.bytes = bytes,
                          !.cmsgs = [i \in 1..k |-> fds.got + i],
                          !.got = @ + k]
    /\ UNCHANGED <<vol, dir, locks, server_vars, codec, ids, plist, ts>>

\* recvmsg returns an error: `?` leaves the function.
RecvmsgFails ==
    /\ fds.pc = "recvmsg"
    /\ fds' = [fds EXCEPT !.pc = "returned"]
    /\ UNCHANGED <<vol, dir, locks, server_vars, codec, ids, plist, ts>>

\* `match print_data(data.to_owned())`: an Err is logged, a panic unwinds
\* the thread.
PrintData ==
    /\ fds.pc = "print_data"
    /\ LET printed(r) ==
               fds' = [fds EXCEPT !.version = r.version,
                           !.pc = IF r.res = "panic" THEN "panicked" ELSE "sendmsg"]
       IN  printed(print_data(fds.bytes, fds.version))
    /\ UNCHANGED <<vol, dir, locks, server_vars, codec, ids, plist, ts>>

\* `sendmsg(wfd, &[iovec], &cmsgs, ..)?` and the assertion on what was sent:
\* the call sends all bytes, or fewer ("short", for two bytes or more), or
\* fails ("err").
Sendmsg(outcome) ==
    /\ fds.pc = "sendmsg"
    /\ outcome = "short" => Len(fds.bytes) > 1
    /\ fds' = [fds EXCEPT
           !.pc = CASE outcome = "all" -> "close"
                    [] outcome = "short" -> "panicked"
                    [] OTHER -> "returned",
           !.passed = IF outcome = "err" THEN @
                      ELSE @ \cup {fds.cmsgs[i] : i \in 1..Len(fds.cmsgs)}]
    /\ UNCHANGED <<vol, dir, locks, server_vars, codec, ids, plist, ts>>

\* The loop over cmsgs that closes the descriptors, and inc_msg_counter.
Close ==
    /\ fds.pc = "close"
    /\ fds' = [fds EXCEPT
           !.pc = "recvmsg", !.cmsgs = <<>>, !.count = @ + 1,
           !.closes = [fd \in DOMAIN @ |->
                          IF \E i \in 1..Len(fds.cmsgs) : fds.cmsgs[i] = fd
                          THEN @[fd] + 1 ELSE @[fd]]]
    /\ UNCHANGED <<vol, dir, locks, server_vars, codec, ids, plist, ts>>

ProxyNext ==
    \/ \E m \in 1..Len(ProxyMessages), k \in 0..CMSG_FDS : Recvmsg(ProxyMessages[m], k)
    \/ RecvmsgFails
    \/ PrintData
    \/ \E outcome \in {"all", "short", "err"} : Sendmsg(outcome)
    \/ Close

ProxySpec == ProxyInit /\ [][ProxyNext]_vars

(***************************************************************************)
(* Properties.  They speak of the step taken last: the packet handled, the *)
(* state before it (last.before) and the state after it (the current one). *)
(***************************************************************************)
\* The last step handled a packet.
Handled == last.op = "packet"
\* The packet handled, its connection and the client of that connection.
LastPacket == Input(last.input)
LastHandler == last.before.handlers[last.conn]
LastClient == LastHandler.client
\* The client's record before and after the step.
ClientBefore == last.before.clients.map[LastClient]
ClientAfter == data.clients.map[LastClient]
\* The server data before the step.
DataBefore ==
    [cookie |-> data.cookie, clients |-> last.before.clients, sinks |-> last.before.sinks]
\* What the handler's parser made of the packet.
LastParse == last.parse
\* What the parser makes of the payload at the version stored before the step.
ParseAtStored == from_tagstruct(LastPacket.payload, ClientBefore.protocol_version)
\* The last step handled a control packet that parsed: LastCmd.
Parsed == Handled /\ LastPacket.channel = -1 /\ LastParse.res = "ok"
LastCmd == LastParse.cmd
\* The last step handled an Auth command.
HandledAuth == Parsed /\ LastCmd.kind = "Auth"

\* The wire form of a control packet with the given payload.
ControlPacket(payload) == [channel |-> -1, flags |-> [hi |-> 0, lo |-> 0], payload |-> payload]
\* The payload of an ERROR with a tag and a code, byte by byte.
ErrorPayload(tag, code) ==
    <<76, 0, 0, 0, 0, 76>> \o U32Bytes(tag) \o <<76, 0, 0, 0, code>>
\* The payload of a REPLY with a tag and one u32 below 256, byte by byte.
ReplyPayload(tag, n) ==
    <<76, 0, 0, 0, 2, 76>> \o U32Bytes(tag) \o <<76, 0, 0, 0, n>>
\* The step handed exactly one packet to the sink of its connection, with
\* this payload, and nothing to any other.
Replied(payload) ==
    sent = [last.before.sent EXCEPT ![last.conn] = Append(@, ControlPacket(payload))]
\* The step left every handler as it was: the connection is still open.
StaysOpen == handlers = last.before.handlers
\* The opcode byte and the tag of a packet handed to the sink.
OpcodeOf(packet) == packet.payload[5]
TagOf(packet) == U32OfBytes(packet.payload[7], packet.payload[8],
                            packet.payload[9], packet.payload[10])

\* C1: a client that is not authenticated gets ERROR(Access), with the
\* command's tag, for every parsed command that is not Auth, and the step
\* changes neither a client record nor a catalog.
UnauthenticatedIsDenied ==
    (Parsed /\ ~ClientBefore.authed /\ LastCmd.kind # "Auth")
        => /\ Replied(ErrorPayload(LastCmd.tag, 1))
           /\ StaysOpen
           /\ data.clients = last.before.clients
           /\ data.sinks = last.before.sinks

\* C1, reached: an unauthenticated client sent a REPLY and was denied.
UnauthenticatedIsDenied_reached ==
    /\ Parsed
    /\ ~ClientBefore.authed
    /\ LastCmd.kind = "Reply"
    /\ Replied(ErrorPayload(LastCmd.tag, 1))

\* C2: a client is authenticated only if its own connection handled an
\* Auth with version >= 13 and a cookie equal to the server's 256 bytes;
\* the flag is set by no other step and for no other client.
AuthenticatedOnlyByOwnAuth ==
    /\ \A h \in Open : ClientOf(h).authed => good_auth[h]
    /\ \A c \in (DOMAIN data.clients.map) \cap (DOMAIN last.before.clients.map) :
           (data.clients.map[c].authed /\ ~last.before.clients.map[c].authed)
               => /\ HandledAuth
                  /\ c = LastClient
                  /\ LastCmd.params.version >= 13
                  /\ Len(LastCmd.params.cookie) = 256
                  /\ \A i \in 1..256 : LastCmd.params.cookie[i] = data.cookie[i]
    /\ last.op = "listen" => ~ClientOf(last.conn).authed

\* C2, reached: one connection is authenticated while another, which sent
\* an Auth with a different cookie, is not.
AuthenticatedOnlyByOwnAuth_reached ==
    /\ HandledAuth
    /\ ~ClientAfter.authed
    /\ LastCmd.params.version >= 13
    /\ \E h \in Open : h # last.conn /\ ClientOf(h).authed /\ good_auth[h]

\* C3: an Auth with version >= 13 and a cookie that differs from the
\* server's gets ERROR(Access) with the command's tag, leaves the flag as
\* it was, and leaves the connection open.
WrongCookieIsDenied ==
    (HandledAuth /\ LastCmd.params.version >= 13 /\ LastCmd.params.cookie # data.cookie)
        => /\ Replied(ErrorPayload(LastCmd.tag, 1))
           /\ StaysOpen
           /\ ClientAfter.authed = ClientBefore.authed

\* C3, reached: an authenticated client sent an Auth with an empty cookie.
WrongCookieIsDenied_reached ==
    /\ HandledAuth
    /\ LastCmd.params.version >= 13
    /\ LastCmd.params.cookie = <<>>
    /\ ClientBefore.authed
    /\ ClientAfter.authed
    /\ Replied(ErrorPayload(LastCmd.tag, 1))

\* C4: an Auth with version < 13 gets ERROR(Version), code 17, with the
\* command's tag, whatever its cookie; the connection stays open and no
\* client record changes.
OldVersionIsRejected ==
    (HandledAuth /\ LastCmd.params.version < 13)
        => /\ Replied(ErrorPayload(LastCmd.tag, 17))
           /\ StaysOpen
           /\ data.clients = last.before.clients

\* C4, reached: an Auth with version 12 and the server's cookie was
\* rejected, and the client is not authenticated.
OldVersionIsRejected_reached ==
    /\ HandledAuth
    /\ LastCmd.params.version = 12
    /\ LastCmd.params.cookie = data.cookie
    /\ ~ClientAfter.authed
    /\ Replied(ErrorPayload(LastCmd.tag, 17))

\* C5: an Auth with version >= 13 and the server's cookie gets a REPLY
\* with the command's tag and the single u32 32: bits 30 and 31 are clear.
AuthReplyIsVersion32 ==
    (HandledAuth /\ LastCmd.params.version >= 13 /\ LastCmd.params.cookie = data.cookie)
        => Replied(ReplyPayload(LastCmd.tag, 32))

\* C5, reached: a client that set both the shm and the memfd bit, at a
\* version above 13, was authenticated.
AuthReplyIsVersion32_reached ==
    /\ HandledAuth
    /\ LastCmd.params.version > 13
    /\ LastCmd.params.supports_shm
    /\ LastCmd.params.supports_memfd
    /\ LastCmd.params.cookie = data.cookie
    /\ ClientAfter.authed
    /\ Replied(ReplyPayload(LastCmd.tag, 32))

\* The outcome of the step shows the version the payload was parsed with:
\* the handler's parser made of it what the parser makes of it at the
\* version stored before the step, the task ends without a panic exactly
\* when the payload does not parse at that version, and a packet is handed
\* to the sink only for the command it parses to at that version.
ParsedAtStoredVersion ==
    (Handled /\ LastPacket.channel = -1)
        => /\ LastParse = ParseAtStored
           /\ handlers[last.conn].state = "closed" <=> LastParse.res = "err"
           /\ LastParse.res = "panic" => handlers[last.conn].state = "panicked"
           /\ handlers[last.conn].state = "open"
                  => /\ LastParse.res = "ok"
                     /\ Len(sent[last.conn]) = Len(last.before.sent[last.conn]) + 1
                     /\ TagOf(sent[last.conn][Len(sent[last.conn])]) = LastCmd.tag

\* The clients other than c that both the state before the step and the
\* state after it hold keep their protocol_version.
OthersKeepVersion(c) ==
    \A o \in ((DOMAIN data.clients.map) \cap (DOMAIN last.before.clients.map)) \ {c} :
        data.clients.map[o].protocol_version
            = last.before.clients.map[o].protocol_version

\* C6: once an Auth with version v >= 13 is handled the client's
\* protocol_version is v, whether the cookie matched or not; the version
\* stays until the connection's next packet (no other step changes it),
\* and that packet is parsed with it.
AuthSetsVersionForNextParse ==
    /\ (HandledAuth /\ LastCmd.params.version >= 13)
           => /\ StaysOpen
              /\ ClientAfter.protocol_version = LastCmd.params.version
    /\ Handled => OthersKeepVersion(LastClient)
    /\ ~Handled => OthersKeepVersion(-1)
    /\ ParsedAtStoredVersion

\* C6, reached: after an Auth with version 32 and a cookie that did not
\* match, the connection sent a payload that parses at 32 and not at 13.
AuthSetsVersionForNextParse_reached ==
    /\ Parsed
    /\ ~ClientBefore.authed
    /\ ClientBefore.protocol_version = 32
    /\ from_tagstruct(LastPacket.payload, 13).res = "err"
    /\ last.before.sent[last.conn] # <<>>
    /\ Replied(ErrorPayload(LastCmd.tag, 1))

\* C7: a client starts at protocol_version 13, only an Auth with version
\* v >= 13 on its own connection changes it (to v), so it is >= 13 in
\* every state, and every payload is parsed with the stored value.
VersionChangedOnlyByAuth ==
    /\ \A c \in DOMAIN data.clients.map : data.clients.map[c].protocol_version >= 13
    /\ last.op = "listen" => ClientOf(last.conn).protocol_version = 13
    /\ \A c \in (DOMAIN data.clients.map) \cap (DOMAIN last.before.clients.map) :
           data.clients.map[c].protocol_version
                   # last.before.clients.map[c].protocol_version
               => /\ HandledAuth
                  /\ c = LastClient
                  /\ LastCmd.params.version >= 13
                  /\ data.clients.map[c].protocol_version = LastCmd.params.version
    /\ (Handled /\ LastPacket.channel = -1 /\ handlers[last.conn].state = "open")
           => LastParse.res = "ok"

\* C7, reached: an authenticated client at version 32 set its name, and is
\* still at version 32.
VersionChangedOnlyByAuth_reached ==
    /\ Parsed
    /\ LastCmd.kind = "SetClientName"
    /\ ClientBefore.authed
    /\ ClientBefore.protocol_version = 32
    /\ ClientAfter.protocol_version = 32
    /\ OpcodeOf(sent[last.conn][Len(sent[last.conn])]) = 2

\* C8: when handle_control returns an error for a parsed command, the
\* code is Access, Protocol, Version or NotImplemented, one ERROR packet
\* with the command's tag and that code is handed to the sink, and the
\* connection stays open.
SemanticErrorIsReported ==
    Parsed =>
        LET r == handle_control(DataBefore, LastClient, LastCmd)
        IN  r.res = "err"
                => /\ r.code \in {Access, Protocol, Version, NotImplemented}
                   /\ Replied(ErrorPayload(LastCmd.tag, r.code))
                   /\ StaysOpen

\* C8, reached: a connection whose last command got ERROR(Version) sent
\* another command, which got its REPLY.
SemanticErrorIsReported_reached ==
    /\ Parsed
    /\ last.before.sent[last.conn] # <<>>
    /\ LET e == last.before.sent[last.conn][Len(last.before.sent[last.conn])]
       IN  OpcodeOf(e) = 0 /\ Len(e.payload) = 15 /\ e.payload[15] = Version
    /\ handlers[last.conn].state = "open"
    /\ OpcodeOf(sent[last.conn][Len(sent[last.conn])]) = 2
    /\ Len(sent[last.conn]) = Len(last.before.sent[last.conn]) + 1

\* C9: on every connection the packets handed to the sink are, one for
\* one and in order, the replies to the commands parsed: the i-th carries
\* the tag of the i-th command.
OneReplyPerCommand ==
    \A h \in Conns :
        /\ Len(sent[h]) = Len(parsed[h])
        /\ \A k \in 1..Len(sent[h]) : TagOf(sent[h][k]) = parsed[h][k]

\* C10: a control payload that does not parse gets no reply; the task of
\* its connection ends, so the connection handles no further packet (only
\* an open connection ever handles one); the other connections, their
\* clients and the sinks are as before.
ParseFailureClosesConnection ==
    /\ Handled => LastHandler.state = "open"
    /\ (Handled /\ LastPacket.channel = -1 /\ LastParse.res = "err")
           => /\ sent = last.before.sent
              /\ handlers = [last.before.handlers EXCEPT ![last.conn].state = "closed"]
              /\ \A c \in (DOMAIN last.before.clients.map) \ {LastClient} :
                     /\ c \in DOMAIN data.clients.map
                     /\ data.clients.map[c] = last.before.clients.map[c]
              /\ data.sinks = last.before.sinks

\* C10, reached: a payload that starts with the byte 0x5A closed its
\* connection while another connection, authenticated, stayed open.
ParseFailureClosesConnection_reached ==
    /\ Handled
    /\ LastPacket.channel = -1
    /\ LastPacket.payload # <<>>
    /\ LastPacket.payload[1] = 90
    /\ LastParse.res = "err"
    /\ handlers[last.conn].state = "closed"
    /\ \E h \in Open : h # last.conn /\ ClientOf(h).authed /\ sent[h] # <<>>

\* The opcode and the tag at the head of the control payload handled last,
\* read as the parser reads them: two u32.
LastHeader == ReadFields(LastPacket.payload, 0, <<"U32", "U32">>, <<>>)
\* The last step handled a control packet whose payload starts with an
\* opcode of the enumeration and a tag.
HeaderOk ==
    /\ Handled
    /\ LastPacket.channel = -1
    /\ LastHeader.res = "ok"
    /\ ~U32Lt(U32FromNat(PA_COMMAND_REGISTER_MEMFD_SHMID), LastHeader.val[1].n)
LastOpcode == U32ToNat(LastHeader.val[1].n)
LastTag == LastHeader.val[2].n
\* The opcodes handle_control has an arm for that returns a packet or an
\* error, and those of the enumeration it has none for.
HandledOpcodes ==
    { PA_COMMAND_ERROR, PA_COMMAND_REPLY, PA_COMMAND_CREATE_PLAYBACK_STREAM,
      PA_COMMAND_AUTH, PA_COMMAND_SET_CLIENT_NAME, PA_COMMAND_GET_SINK_INFO_LIST,
      PA_COMMAND_GET_MODULE_INFO_LIST, PA_COMMAND_GET_CLIENT_INFO_LIST }
UnhandledOpcodes == (0..PA_COMMAND_REGISTER_MEMFD_SHMID) \ HandledOpcodes

\* C11: an authenticated client that sends a command of the enumeration
\* without an implemented handler gets ERROR(NotImplemented), code 23, with
\* the command's tag, and its connection stays open.
UnhandledIsNotImplemented ==
    (HeaderOk /\ ClientBefore.authed /\ LastOpcode \in UnhandledOpcodes)
        => /\ Replied(ErrorPayload(LastTag, 23))
           /\ StaysOpen

\* C12: an authenticated client that sends a command with opcode REPLY or
\* opcode ERROR gets ERROR(Protocol), code 7, with the command's tag, and
\* its connection stays open.
ReplyOrErrorIsProtocolError ==
    (HeaderOk /\ ClientBefore.authed
              /\ LastOpcode \in {PA_COMMAND_REPLY, PA_COMMAND_ERROR})
        => /\ Replied(ErrorPayload(LastTag, 7))
           /\ StaysOpen

\* C13: a packet whose channel is not -1 (memblock, shm-release,
\* shm-revoke) does not end the handler: after it the task of the
\* connection is still running and its client is still registered, so the
\* connection's next control packets are handled.
NonControlFrameIsAccepted ==
    (Handled /\ LastPacket.channel # -1)
        => /\ handlers[last.conn].state = "open"
           /\ LastClient \in DOMAIN data.clients.map

\* C14: the client catalog holds exactly one record per running handler:
\* the record of a handler is there from the accept on and as long as the
\* task runs, under an index no other handler has or had, and it is gone
\* once the task has ended by a socket close or a payload that does not
\* parse.
OneClientPerLiveHandler ==
    /\ DOMAIN data.clients.map = { handlers[h].client : h \in Open }
    /\ \A h1, h2 \in Conns : h1 # h2 => handlers[h1].client # handlers[h2].client
    /\ \A c \in DOMAIN data.clients.map : data.clients.map[c].id = c
    /\ last.op = "listen"
           => /\ handlers[last.conn].client \notin DOMAIN last.before.clients.map
              /\ handlers[last.conn].client \in DOMAIN data.clients.map
    /\ (last.op = "hangup" \/ (Handled /\ LastParse.res = "err"))
           => /\ LastClient \in DOMAIN last.before.clients.map
              /\ DOMAIN data.clients.map = (DOMAIN last.before.clients.map) \ {LastClient}

\* C14, reached: the first connection was closed by a payload that did not
\* parse and its record is gone, while the second is open and has its
\* record, under index 1.
OneClientPerLiveHandler_reached ==
    /\ Handled
    /\ LastParse.res = "err"
    /\ last.conn = 1
    /\ 2 \in Open
    /\ DOMAIN data.clients.map = {1}
    /\ handlers[2].client = 1

\* C15: in every state the sink catalog holds the dummy sink under index
\* 0, as ServerData::new made it, and nothing else: no accept, no packet
\* and no socket close removes, replaces or changes it.
DummySinkIsImmortal ==
    /\ DOMAIN data.sinks.map = {0}
    /\ data.sinks.map[0] = new_dummy(0)
    /\ data.sinks.map[0].index = 0
    /\ data.sinks = last.before.sinks

\* C15, reached: a client authenticated, asked for the sink list, got a
\* reply and closed its socket; the dummy sink is still there.
DummySinkIsImmortal_reached ==
    /\ last.op = "hangup"
    /\ Len(parsed[last.conn]) = 2
    /\ Len(sent[last.conn]) = 2
    /\ Len(sent[last.conn][2].payload) > 21
    /\ OpcodeOf(sent[last.conn][2]) = 2
    /\ SubSeq(sent[last.conn][2].payload, 17, 21) = <<68, 117, 109, 109, 121>>
    /\ 0 \in DOMAIN data.sinks.map


(***************************************************************************)
(* Properties of the frame codec, under CodecSpec.                         *)
(***************************************************************************)
\* The last step of the codec called the decoder.
Decoded == codec.last.op = "decode"
\* The stream has delivered everything and the decoder has yielded nothing
\* more.
Drained == codec.wire = <<>> /\ ~codec.readable
\* The length field at the head of the buffer the decoder was called on.
HeadLength == U32OfBytes(codec.last.src[1], codec.last.src[2],
                         codec.last.src[3], codec.last.src[4])
\* The decoder was called on a buffer short of a whole frame.
ShortOfAFrame ==
    \/ Len(codec.last.src) < DESCRIPTOR_SIZE
    \/ HeadLength.hi > 0
    \/ Len(codec.last.src) < DESCRIPTOR_SIZE + HeadLength.lo
\* The packets of the frames sent.
PacketsSent == [k \in 1..Len(codec.frames) |-> Packet_new_command(codec.frames[k])]

\* C16: frames encoded back-to-back and delivered in chunks of any size
\* are all yielded, in order, none lost; and yielding a packet takes
\* exactly 20+length bytes off the buffer and leaves the bytes after them.
DecoderYieldsEveryFrame ==
    /\ Drained => codec.yielded = PacketsSent
    /\ (Decoded /\ codec.last.res = "some")
           => codec.src = SubSeq(codec.last.src,
                                 DESCRIPTOR_SIZE + HeadLength.lo + 1,
                                 Len(codec.last.src))

\* C17: the encoding of a control packet built from a payload b decodes
\* to one packet with payload b, channel -1 and descriptor length |b|; and
\* called on less than 20 bytes, or on less than 20+length bytes, the
\* decoder yields nothing and leaves the buffer as it was.
EncodedCommandDecodes ==
    /\ (Drained /\ Len(codec.frames) = 1 /\ codec.rest = <<>>)
           => /\ Len(codec.yielded) = 1
              /\ codec.yielded[1].payload = codec.frames[1]
              /\ codec.yielded[1].desc.channel = -1
              /\ codec.yielded[1].desc.length = U32FromNat(Len(codec.frames[1]))
    /\ \A b \in Payloads :
           LET r == decode(PacketCodec_new.desc, encode(Packet_new_command(b), <<>>))
           IN  r.res = "some" /\ r.item = Packet_new_command(b)
    /\ (Decoded /\ ShortOfAFrame)
           => /\ codec.last.res = "none"
              /\ codec.src = codec.last.src
              /\ Len(codec.yielded) = codec.last.yielded

EncodedCommandDecodes_reached ==
    /\ Decoded /\ codec.last.res = "some" /\ codec.last.starved
    /\ codec.frames = << <<8, 9>> >>
    /\ codec.yielded = << Packet_new_command(<<8, 9>>) >>
    /\ codec.rest = <<>> /\ codec.wire = <<>> /\ codec.src = <<>>

\* C18: the decoder answers a descriptor whose length field is above the
\* configured maximum with an error (4 GiB - 1 is above any maximum a u32
\* can exceed).
OversizedLengthIsRejected ==
    (Decoded /\ Len(codec.last.src) >= DESCRIPTOR_SIZE /\ HeadLength = U32Max)
        => codec.last.res = "err"


(***************************************************************************)
(* Properties of the IdxSet, under IdxSetSpec.                             *)
(***************************************************************************)
\* C19: over any calls of alloc and remove, the indices alloc returns are
\* strictly increasing, so none is returned twice, also after its item was
\* removed; and alloc never finds the index it allocated occupied.
AllocatedIdsIncrease ==
    /\ \A i, j \in 1..Len(ids.returned) :
           i < j => IdxLt(ids.returned[i], ids.returned[j])
    /\ ids.last # "occupied"


(***************************************************************************)
(* Properties of SetClientName, under NameSpec.                            *)
(***************************************************************************)
\* The last step handled one of the further SetClientName commands, sent by
\* an authenticated client; and the property list it was written from.
NameSet == Handled /\ last.input > Len(Inputs) /\ ClientBefore.authed
Supplied == NameProps[last.input - Len(Inputs)]

\* C20: SetClientName from an authenticated client sets every key of the
\* supplied list to the supplied value, also where the client had another
\* value; keeps the client's other keys as they were; changes no other
\* client; and is answered with a REPLY carrying the client's own id.
SetClientNameMerges ==
    NameSet =>
        /\ DOMAIN ClientAfter.props = (DOMAIN ClientBefore.props) \cup (DOMAIN Supplied)
        /\ \A k \in DOMAIN Supplied : ClientAfter.props[k] = Supplied[k]
        /\ \A k \in (DOMAIN ClientBefore.props) \ (DOMAIN Supplied) :
               ClientAfter.props[k] = ClientBefore.props[k]
        /\ ClientAfter = [ClientBefore EXCEPT !.props = ClientAfter.props]
        /\ \A c \in (DOMAIN last.before.clients.map) \ {LastClient} :
               /\ c \in DOMAIN data.clients.map
               /\ data.clients.map[c] = last.before.clients.map[c]
        /\ DOMAIN data.clients.map = DOMAIN last.before.clients.map
        /\ Replied(ReplyPayload(TagA, ClientBefore.id))
        /\ ClientBefore.id = LastClient
        /\ StaysOpen

\* C20, reached: the second client had a name and a description and sets
\* another name: the name is replaced, the description kept, and the first
\* client keeps its name.
SetClientNameMerges_reached ==
    /\ NameSet /\ last.conn = 2 /\ last.input = Len(Inputs) + 1
    /\ ClientBefore.props = NameProps[2]
    /\ ClientAfter.props[PROP_APPLICATION_NAME] = NameOther
    /\ ClientAfter.props[PROP_DEVICE_DESCRIPTION] = NameOther
    /\ data.clients.map[handlers[1].client].props = NameProps[1]
    /\ sent[2][Len(sent[2])].payload = ReplyPayload(TagA, 1)


(***************************************************************************)
(* Properties of GetClientInfoList, under NameSpec.                        *)
(***************************************************************************)
\* The last step handled GetClientInfoList from an authenticated client.
ClientsListed == Handled /\ last.input = 12 /\ ClientBefore.authed
\* The catalog, the packet handed to the sink, and its payload read back:
\* opcode and tag, and five values for each client of the catalog.
Catalog == last.before.clients.map
ListPacket == sent[last.conn][Len(sent[last.conn])]
ListKinds ==
    LET RECURSIVE entries(_)
        entries(n) == IF n = 0 THEN <<>>
                      ELSE <<"U32", "String", "U32", "String", "PropList">> \o entries(n - 1)
    IN  <<"U32", "U32">> \o entries(Cardinality(DOMAIN Catalog))
ListRead == ReadFields(ListPacket.payload, 0, ListKinds, <<>>)
\* The name an entry is to carry for a property list.
AppName(props) ==
    IF PROP_APPLICATION_NAME \in DOMAIN props
    THEN SubSeq(props[PROP_APPLICATION_NAME], 1, Len(props[PROP_APPLICATION_NAME]) - 1)
    ELSE <<>>

\* C21: the reply to GetClientInfoList from an authenticated client has
\* one entry for each client of the catalog, the requester and the clients
\* not authenticated included and the disconnected ones not, in ascending
\* order of id, each with the client's id, its application.name (the empty
\* default without one), the driver string and its property list.
ClientListIsCatalog ==
    ClientsListed =>
        LET entry(r, k, f) == r.val[2 + 5 * (k - 1) + f]
            listed(r, n) ==
                /\ r.res = "ok"
                /\ r.pos = Len(ListPacket.payload)
                /\ r.val[1].n = U32FromNat(PA_COMMAND_REPLY)
                /\ r.val[2].n = TagB
                /\ \A k \in 1..n :
                       LET id == U32ToNat(entry(r, k, 1).n)
                       IN  /\ id \in DOMAIN Catalog
                           /\ Catalog[id].id = id
                           /\ entry(r, k, 2).bytes = AppName(Catalog[id].props)
                           /\ entry(r, k, 3).n = INVALID_INDEX
                           /\ entry(r, k, 4).bytes = <<>>
                           /\ entry(r, k, 5).props = Catalog[id].props
                /\ \A k \in 1..(n - 1) : U32Lt(entry(r, k, 1).n, entry(r, k + 1, 1).n)
        IN  /\ sent = [last.before.sent EXCEPT ![last.conn] = Append(@, ListPacket)]
            /\ ListPacket.channel = CONTROL_CHANNEL
            /\ listed(ListRead, Cardinality(DOMAIN Catalog))
            /\ LastClient \in DOMAIN Catalog
            /\ DOMAIN Catalog = { handlers[h].client : h \in Open }
            /\ data.clients = last.before.clients
            /\ StaysOpen

\* C21, reached: the first client, named "probe" and with a description,
\* is sent two entries: its own and that of the second connection, which is
\* not authenticated and has no property.
ClientListIsCatalog_reached ==
    /\ ClientsListed /\ last.conn = 1
    /\ DOMAIN Catalog = {0, 1}
    /\ Catalog[0].props = NameProps[2]
    /\ ~Catalog[1].authed /\ Catalog[1].props = EmptyProps
    /\ ListRead.res = "ok"
    /\ ListRead.val[4].bytes = <<112, 114, 111, 98, 101>>
    /\ ListRead.val[8].n = U32FromNat(1)
    /\ ListRead.val[9].bytes = <<>>


(***************************************************************************)
(* Properties of the tagstruct writer and reader, under TagSpec.           *)
(***************************************************************************)
\* The last call wrote the sink list reply.
SinkListed == ts.last.op = "sinks"
\* The first four values of the reply: index, name, description and the
\* sample specification.
Listed == ReadFields(ts.w, 0, <<"U32", "String", "String", "SampleSpec">>, <<>>)

\* C22: the sample specification the sink list reply carries for a client
\* of version p has the channels and the rate of the sink's; its format is
\* Float32Le (5) for S24Le (9) and S24In32Le (11) and Float32Be (6) for
\* S24Be (10) and S24In32Be (12) when p < 15, and the sink's format for any
\* other format and for any p >= 15.
DowngradeBelow15 ==
    SinkListed =>
        LET spec == ts.last.arg.v
            p == ts.last.arg.version
            fixed == Listed.val[4]
        IN  /\ Listed.res = "ok"
            /\ fixed.channels = spec.channels
            /\ fixed.sample_rate = spec.sample_rate
            /\ (p < 15 /\ spec.format \in {9, 11}) => fixed.format = 5
            /\ (p < 15 /\ spec.format \in {10, 12}) => fixed.format = 6
            /\ (p >= 15 \/ spec.format \notin 9..12) => fixed.format = spec.format

\* C22, reached: the sink of S24In32Le listed for a client of version 14
\* is written as Float32Le, with two channels at 48000 Hz.
DowngradeBelow15_reached ==
    /\ SinkListed
    /\ ts.last.arg.version = 14
    /\ ts.last.arg.v.format = 11
    /\ Listed.res = "ok"
    /\ Listed.val[4].format = 5
    /\ Listed.val[4].channels = 2
    /\ Listed.val[4].sample_rate = U32FromNat(48000)

\* The last call was read(); the cursor it started at, what it returned,
\* and the tag byte under the cursor.
ReadCalled == ts.last.op = "read"
ReadAt == ts.last.at
Got == ts.last.res
TagRead == ts.r[ReadAt + 1]

\* C23: a call of read() on any bytes returns a value, the end or an error
\* and never panics; a tag byte outside the defined set is an error.
ReadNeverPanics ==
    ReadCalled =>
        /\ Got.res \in {"ok", "eof", "err"}
        /\ ~ts.panicked
        /\ (ReadAt < Len(ts.r) /\ TagRead \notin Tags) => Got.res = "err"

\* The bytes of the data from position a + 1 to position b.
Span(a, b) == SubSeq(ts.r, a + 1, b)

\* The value returned lies whole in the data: its width is the one of its
\* variant, a string ends at its nul byte, a blob has the length declared,
\* a property list ends at its null string.
WholeValue(v, at, pos) ==
    /\ at < pos
    /\ pos <= Len(ts.r)
    /\ v.type \in {"NullString", "Boolean"} => pos = at + 1
    /\ v.type = "U8" => pos = at + 2
    /\ v.type \in {"U32", "Volume"} => pos = at + 5
    /\ v.type = "SampleSpec" => pos = at + 7
    /\ v.type \in {"U64", "S64", "Usec"} =>
           pos = at + 9 /\ v.bytes = Span(at + 1, pos)
    /\ v.type = "String" =>
           /\ pos = at + 2 + Len(v.bytes)
           /\ ts.r[pos] = 0
           /\ v.bytes = Span(at + 1, pos - 1)
    /\ v.type = "Arbitrary" =>
           /\ pos = at + 5 + Len(v.bytes)
           /\ U32OfBytes(ts.r[at + 2], ts.r[at + 3], ts.r[at + 4], ts.r[at + 5])
                  = U32FromNat(Len(v.bytes))
           /\ v.bytes = Span(at + 5, pos)
    /\ v.type = "ChannelMap" => pos = at + 2 + Len(v.map)
    /\ v.type = "CVolume" => pos = at + 2 + 4 * Len(v.volumes)
    /\ v.type \in {"PropList", "FormatInfo"} => ts.r[pos] = TAG_STRING_NULL

\* The data is an encoded value cut short after its tag.
CutShort ==
    /\ ts.r # <<>>
    /\ \E i \in 1..Len(Values) :
           /\ Len(ts.r) < Len(to_tag_struct(Values[i], PROTOCOL_VERSION))
           /\ ts.r = SubSeq(to_tag_struct(Values[i], PROTOCOL_VERSION), 1, Len(ts.r))

\* C24: read() returns the end exactly when its cursor is at the end of the
\* data before the tag byte; a value it returns lies whole in the data and
\* the cursor is moved behind it; and on a value cut short after its tag
\* (an integer, a string, a blob, a property list or any other variant) it
\* returns an error.
EndOnlyAtCleanEnd ==
    ReadCalled =>
        /\ (Got.res = "eof") <=> (ReadAt = Len(ts.r))
        /\ Got.res = "ok" => (WholeValue(Got.val, ReadAt, Got.pos) /\ ts.pos = Got.pos)
        /\ Got.res # "ok" => ts.pos = ReadAt
        /\ (ReadAt = 0 /\ CutShort) => Got.res = "err"

\* C24, reached: after a u32 was read, the string behind it has no nul
\* byte before the end of the data: the second call returns an error.
EndOnlyAtCleanEnd_reached ==
    /\ ReadCalled
    /\ ts.r = w_u32(U32FromNat(5)) \o <<TAG_STRING, 104>>
    /\ ReadAt = 5
    /\ Got.res = "err"

\* read() was called at the start of a property list on the wire, whose
\* entries are ts.made.
PropListRead == ReadCalled /\ ReadAt = 0 /\ ts.r = PropWire(ts.made)
\* An entry the decoder must reject: the key is empty or has a byte that is
\* not ASCII (as every string that is not UTF-8 has), the length declared
\* is above 64 KiB or is not the length of the blob.
BadEntry(e) ==
    \/ e.key = <<>>
    \/ \E i \in 1..Len(e.key) : e.key[i] > 127
    \/ U32ToNat(e.declared) > 65536
    \/ U32ToNat(e.declared) # Len(e.blob)
\* The property list of the entries: for each key the blob of the last
\* entry that has it.
LastWins(es) ==
    [k \in { es[i].key : i \in 1..Len(es) } |->
        es[CHOOSE i \in 1..Len(es) :
               es[i].key = k /\ \A j \in (i + 1)..Len(es) : es[j].key # k].blob]

\* C26: decoding a property list is an error when an entry has an empty
\* key, a key that is not UTF-8 or not ASCII, a declared length above
\* 64 KiB or a declared length that is not the length of its blob;
\* otherwise it yields the list in which each key has the value of its last
\* entry.
PropListDecoding ==
    PropListRead =>
        IF \E i \in 1..Len(ts.made) : BadEntry(ts.made[i])
        THEN Got.res = "err"
        ELSE /\ Got.res = "ok"
             /\ Got.val.type = "PropList"
             /\ Got.val.props = LastWins(ts.made)
             /\ Got.pos = Len(ts.r)

\* C26, reached: the key "a" came twice, first with an empty blob and then
\* with two bytes; the list decoded has the two bytes.
PropListDecoding_reached ==
    /\ PropListRead
    /\ Len(ts.made) = 2
    /\ ts.made[1].key = <<97>>
    /\ ts.made[2].key = <<97>>
    /\ ts.made[1].blob = <<>>
    /\ Got.res = "ok"
    /\ DOMAIN Got.val.props = {<<97>>}
    /\ Got.val.props[<<97>>] = <<1, 0>>

\* The u32 the four bytes behind position a of the data are, big-endian.
WireU32(a) == U32OfBytes(ts.r[a + 1], ts.r[a + 2], ts.r[a + 3], ts.r[a + 4])
\* min(x, 0x7FFFFFFF), by halves.
Clamped(x) == IF x.hi > 32767 THEN [hi |-> 32767, lo |-> 65535] ELSE x
\* x is in 1..=387840 (387840 = 5 * 65536 + 60160).
RateInBounds(x) ==
    /\ x.hi > 0 \/ x.lo > 0
    /\ x.hi < 5 \/ (x.hi = 5 /\ x.lo <= 60160)
\* The bytes behind the tag read last.
BehindTag == Len(ts.r) - ReadAt - 1

\* C28: a sample specification is returned exactly when its format is in
\* 0..12, its channels in 1..=32 and its rate in 1..=387840, and it has
\* these three values; a channel map is returned exactly when its count is
\* at most 32 and every position is one of the enumeration (0..50); a
\* cumulative volume is returned exactly when its count is in 1..=32; each
\* volume, alone or in a cumulative volume, is min(wire value, 0x7FFFFFFF);
\* whatever is out of these bounds is an error.
ValuesWithinBounds ==
    (ReadCalled /\ ReadAt < Len(ts.r)) =>
        LET at == ReadAt
            count == ts.r[at + 2]
            v == Got.val
        IN  /\ (TagRead = TAG_SAMPLE_SPEC /\ BehindTag >= 6) =>
                   IF /\ ts.r[at + 2] \in 0..12
                      /\ ts.r[at + 3] \in 1..32
                      /\ RateInBounds(WireU32(at + 3))
                   THEN /\ Got.res = "ok"
                        /\ v.type = "SampleSpec"
                        /\ v.format = ts.r[at + 2]
                        /\ v.channels = ts.r[at + 3]
                        /\ v.sample_rate = WireU32(at + 3)
                   ELSE Got.res = "err"
            /\ (TagRead = TAG_CHANNEL_MAP /\ BehindTag >= 1) =>
                   IF /\ count <= 32
                      /\ BehindTag >= 1 + count
                      /\ \A i \in 1..count : ts.r[at + 2 + i] \in 0..50
                   THEN /\ Got.res = "ok"
                        /\ v.type = "ChannelMap"
                        /\ v.map = Span(at + 2, at + 2 + count)
                   ELSE Got.res = "err"
            /\ (TagRead = TAG_CVOLUME /\ BehindTag >= 1) =>
                   IF count \in 1..32 /\ BehindTag >= 1 + 4 * count
                   THEN /\ Got.res = "ok"
                        /\ v.type = "CVolume"
                        /\ v.volumes =
                               [i \in 1..count |-> Clamped(WireU32(at + 4 * i - 2))]
                   ELSE Got.res = "err"
            /\ (TagRead = TAG_VOLUME /\ BehindTag >= 4) =>
                   /\ Got.res = "ok"
                   /\ v.type = "Volume"
                   /\ v.raw = Clamped(WireU32(at + 1))

\* C28, reached: a cumulative volume of the wire values 0xFFFFFFFF and
\* 0x80000000 was read as two volumes of 0x7FFFFFFF.
ValuesWithinBounds_reached ==
    /\ ReadCalled
    /\ ts.r = <<TAG_CVOLUME, 2, 255, 255, 255, 255, 128, 0, 0, 0>>
    /\ Got.res = "ok"
    /\ Got.val.volumes = <<VOLUME_MAX, VOLUME_MAX>>

\* The last call was a write, typed or through write_value/extend; the
\* value it was given, and what read() makes of the writer's bytes from
\* where the call began to write.
WriteCalled == ts.last.op \in {"write", "write_value"}
ReadBack == read(ts.w, ts.last.at)
\* Two values are equal up to protocol_downgrade of a sample specification
\* at a protocol version below 15.
UpToDowngrade(got, v) ==
    /\ got.type = v.type
    /\ \/ got = v
       \/ v.type = "SampleSpec" /\ got = protocol_downgrade(v, PROTOCOL_MIN_VERSION)
\* The typed write of a value reads back as that value and nothing more.
TypedRoundTrip ==
    (ts.last.op = "write" /\ ~ts.panicked) =>
        /\ ReadBack.res = "ok"
        /\ ReadBack.pos = Len(ts.w)
        /\ UpToDowngrade(ReadBack.val, ts.vals[Len(ts.vals)])

\* C30: a write of a value of any variant, typed or through
\* write_value/extend, returns, and reading the bytes it wrote yields the
\* value (up to protocol_downgrade of a sample specification) and ends
\* where the writer ends.
WriteReadRoundTrip ==
    WriteCalled =>
        /\ ~ts.panicked
        /\ ReadBack.res = "ok"
        /\ ReadBack.pos = Len(ts.w)
        /\ UpToDowngrade(ReadBack.val, ts.vals[Len(ts.vals)])

(***************************************************************************)
(* Properties of the parser of commands, under Spec.                       *)
(***************************************************************************)
\* What the `match command` of the parser makes of the payload handled
\* last, at the version the client had before the step: the kind, its
\* parameters and the position behind the fields read.
LastKind ==
    ParseKind(LastPacket.payload, LastHeader.pos, LastOpcode, ClientBefore.protocol_version)
\* The payload handled last is of a kind other than REPLY and holds more
\* after the fields the parser reads.
TrailingValue ==
    /\ HeaderOk
    /\ LastOpcode # PA_COMMAND_REPLY
    /\ LastKind.res = "ok"
    /\ LastKind.pos < Len(LastPacket.payload)

\* C25: a payload of a kind other than REPLY that holds more after the
\* fields read at the client's version is a parse error: no command is
\* produced, nothing is sent and the connection is closed by the error.
TrailingValueIsParseError ==
    TrailingValue =>
        /\ LastParse.res = "err"
        /\ sent = last.before.sent
        /\ handlers = [last.before.handlers EXCEPT ![last.conn].state = "closed"]

\* The fields of a CreatePlaybackStream read from the payload handled last.
StreamFields ==
    ReadFields(LastPacket.payload, LastHeader.pos,
               StreamFieldKinds(ClientBefore.protocol_version), <<>>)
\* The payload handled last is a CreatePlaybackStream of an authenticated
\* client whose fields and formats read and end the payload, and it names
\* its sink by an index other than 0xFFFFFFFF and by a name as well.
BothSinkIndexAndName ==
    /\ HeaderOk
    /\ LastOpcode = PA_COMMAND_CREATE_PLAYBACK_STREAM
    /\ ClientBefore.authed
    /\ StreamFields.res = "ok"
    /\ LET formats == ReadFormats(LastPacket.payload, StreamFields.pos,
                                  ClientBefore.protocol_version)
       IN  formats.res = "ok" /\ formats.pos = Len(LastPacket.payload)
    /\ StreamFields.val[3].n # INVALID_INDEX
    /\ StreamFields.val[4].type = "String"

\* C29: a CreatePlaybackStream with both a sink index other than 0xFFFFFFFF
\* and a sink name is answered with ERROR(Invalid) under the command's tag,
\* and the connection stays open.
BothSinkIndexAndNameIsInvalid ==
    BothSinkIndexAndName =>
        /\ Replied(ErrorPayload(LastTag, Invalid))
        /\ StaysOpen

(***************************************************************************)
(* Properties of the commands written and parsed, under CommandSpec.       *)
(***************************************************************************)
\* The command given to to_tag_struct, the version, and what the last call
\* returned.
Written == ts.last.arg.v
WrittenAt == ts.last.arg.version
Returned == ts.last.res
\* The command parsed is the command written: opcode, tag and fields.
SameCommand ==
    /\ Returned.res = "ok"
    /\ Returned.cmd.kind = Written.kind
    /\ Returned.cmd.tag = Written.tag
    /\ Returned.cmd.params = Written.params

\* C31: a command of any kind is written by to_tag_struct at any version
\* from 13 on, and from_tagstruct at that version makes of the bytes a
\* command of the same opcode, tag and fields.
CommandRoundTrip ==
    /\ ts.last.op = "to_tag_struct" => Returned.res = "ok"
    /\ ts.last.op = "from_tagstruct" => SameCommand

\* The last step handled a command of an authenticated client that has no
\* working handler (an opcode handle_control has no arm for, or
\* CreatePlaybackStream, whose arm is a TODO) and the server answered it.
UnhandledAnswered ==
    /\ HeaderOk
    /\ ClientBefore.authed
    /\ LastOpcode \in UnhandledOpcodes \cup {PA_COMMAND_CREATE_PLAYBACK_STREAM}
    /\ sent # last.before.sent

UnauthenticatedMalformed ==
    /\ HeaderOk
    /\ ~ClientBefore.authed
    /\ LastOpcode # PA_COMMAND_AUTH
    /\ LastParse.res = "err"

\* C37: the authorization check comes before the parsing of the payload:
\* an unauthenticated client whose non-Auth command does not parse gets
\* ERROR(Access) with the command's tag and its connection stays open.
AccessCheckedBeforeParsing ==
    UnauthenticatedMalformed =>
        /\ Replied(ErrorPayload(LastTag, Access))
        /\ StaysOpen

\* The clients that the state before the last step and the state after it
\* both hold.
Staying == (DOMAIN data.clients.map) \cap (DOMAIN last.before.clients.map)
\* The last step handled an Auth of an authenticated client that fails: its
\* version is below 13, or its cookie is not the server's.
FailedReAuth ==
    /\ HandledAuth
    /\ ClientBefore.authed
    /\ \/ LastCmd.params.version < PROTOCOL_MIN_VERSION
       \/ LastCmd.params.cookie # data.cookie

ConnectionsAreIsolated ==
    Handled =>
        /\ \A o \in Staying \ {LastClient} :
               data.clients.map[o] = last.before.clients.map[o]
        /\ (DOMAIN data.clients.map) \ {LastClient}
               = (DOMAIN last.before.clients.map) \ {LastClient}
        /\ data.sinks = last.before.sinks
        /\ \A h \in Conns \ {last.conn} :
               /\ handlers[h] = last.before.handlers[h]
               /\ sent[h] = last.before.sent[h]
\* C39, reached: a connection authenticated itself with a newer version
\* while another client, not authenticated, is connected.
ConnectionsAreIsolated_reached ==
    /\ HandledAuth
    /\ ~ClientBefore.authed
    /\ ClientAfter.authed
    /\ ClientAfter.protocol_version > PROTOCOL_MIN_VERSION
    /\ \E h \in Open \ {last.conn} :
           /\ ~ClientOf(h).authed
           /\ ClientOf(h).protocol_version = PROTOCOL_MIN_VERSION

(***************************************************************************)
(* Properties of the volume conversions, under VolumeSpec.                 *)
(***************************************************************************)
\* A number below 0 (minus zero is not one).
Negative(x) == x.neg /\ (x.kind = "inf" \/ (x.kind = "fin" /\ x.m # 0))

\* C36: the volume 0x10000 is 1.0 as a linear factor and 0 dB, the volume 0
\* is 0.0 as a linear factor and minus infinity dB, and from_linear returns
\* a volume from 0 to 0x7FFFFFFF, the muted one, whose linear factor is 0.0,
\* for an argument below 0.
VolumeFixedPoints ==
    /\ vol.op = "to_linear" /\ vol.raw = NORM => vol.lin = F32One
    /\ vol.op = "to_linear" /\ vol.raw = VOLUME_MUTED => vol.lin = F32Zero
    /\ vol.op = "to_db" /\ vol.raw = NORM => vol.db = F32Zero
    /\ vol.op = "to_db" /\ vol.raw = VOLUME_MUTED => vol.db = F32Inf(TRUE)
    /\ vol.op = "from_linear" =>
          /\ vol.raw >= 0
          /\ vol.raw <= 2147483647
          /\ Negative(vol.arg) =>
                vol.raw = VOLUME_MUTED /\ to_linear(vol.raw) = F32Zero

\* The third assertion of the test: from_linear(-43.0).to_linear() is 0.0.
VolumeFixedPoints_reached ==
    /\ vol.op = "to_linear"
    /\ vol.arg = F32(TRUE, 43, 0)
    /\ vol.raw = VOLUME_MUTED
    /\ vol.lin = F32Zero

(***************************************************************************)
(* Properties of the start of servers, under StartSpec.                    *)
(***************************************************************************)
\* Server p runs and no other server was started.
RunsAlone(p) ==
    /\ dir.srv[p].pc = "running"
    /\ \A o \in Servers \ {p} : dir.srv[o].pc = "new_unix"

\* C32: a server that found a cookie file of 256 bytes when it started holds
\* those bytes as its cookie and the file is the one found, unchanged; a
\* server that found none holds the cookie it wrote to a file of mode 0o600.
CookieIsLoadedIfPresent ==
    \A p \in Servers :
        RunsAlone(p) =>
            IF Len(dir.srv[p].found) = COOKIE_LENGTH
            THEN /\ dir.srv[p].cookie = dir.srv[p].found
                 /\ dir.path = 0
                 /\ dir.inodes[0].content = dir.srv[p].found
            ELSE /\ CookieFile(dir).content = dir.srv[p].cookie
                 /\ CookieFile(dir).mode = ACCESS_MODE

\* C40: at most one server listens, and the socket file is the one it
\* bound.
SocketOfRunningServerIsKept ==
    /\ Cardinality(dir.listening) <= 1
    /\ \A p \in dir.listening : dir.sock.present /\ dir.sock.owner = p

(***************************************************************************)
(* Properties of the catalog locks, under LockSpec.                        *)
(***************************************************************************)
\* Handler h holds at most one guard, none while it is suspended or about to
\* take a lock, and the next thing it does with a guard is to drop it.
ShortSection(h) ==
    /\ Len(locks[h].held) <= 1
    /\ locks[h].at # "sync" => locks[h].held = <<>>
    /\ locks[h].held # <<>> =>
          locks[h].prog # <<>> /\ Head(locks[h].prog).op = "unlock"

BetweenMessages == fds.pc \in {"recvmsg", "returned", "panicked"}

\* C34: no descriptor is closed twice, and when the proxy is done with a
\* message, or has left the loop, every descriptor it received was passed
\* along by sendmsg and closed once.
FdsPassedAndClosedOnce ==
    /\ \A fd \in 1..fds.got : fds.closes[fd] <= 1
    /\ BetweenMessages =>
          \A fd \in 1..fds.got : fd \in fds.passed /\ fds.closes[fd] = 1

(***************************************************************************)
(* Properties of the PropList, under PropListSpec.                         *)
(***************************************************************************)
\* C27: every PropList has only nonempty ASCII keys and values of at most
\* 64 KiB, however it was built (a key occurs once: the list is a map).
PropListIsWellFormed ==
    \A k \in DOMAIN plist.map :
        /\ k # <<>>
        /\ \A i \in 1..Len(k) : k[i] < 128
        /\ Len(plist.map[k]) <= 65536

=============================================================================
